---- MODULE Spec2Model ----
(***************************************************************************)
(* The quote flow of the two bot revisions, Bro_shop_test.py and           *)
(* Catalog_BOT.py: the session store user_estimate_sessions, the message   *)
(* handler handle_message with start_estimate_flow and                     *)
(* process_estimate_flow, the pricing function calculate_estimate and the  *)
(* quote sheet written by write_estimate_to_spreadsheet.                   *)
(*                                                                         *)
(* Texts.  A text is a sequence of tokens; a token is a string that the    *)
(* code never looks inside.  A message the code compares as a whole is one *)
(* token; a text the code takes apart (str.strip, str.replace, the `in`    *)
(* substring test, str.lower) is split at the places where it is taken     *)
(* apart.  The Japanese literals of the source are written in ASCII:       *)
(*                                                                         *)
(*   "hayawari" = 早割            "tsujo" = 通常                           *)
(*   "student" = 学生             "general" = 一般                         *)
(*   "after_day14" = 14日目以降   "within_day14" = 14日目以内   (Bro)      *)
(*   "14days_or_more" = 14日前以上  "within_14days" = 14日前以内 (Catalog) *)
(*   "pattern" = パターン         "sheets" = 枚 (as in 19枚)               *)
(*   "100_or_more" = 100枚以上                                             *)
(*   "U+FF5E" = ～ (fullwidth tilde)   "U+301C" = 〜 (wave dash)           *)
(*   "front_only" = 前のみ  "back_only" = 背中のみ  "front_and_back" = 前と背中 *)
(*   "single_1c" = 前 or 背中 1色   "single_2c" = 前 or 背中 2色            *)
(*   "single_full" = 前 or 背中 フルカラー                                  *)
(*   "both_1c_1c" = 前と背中 前1色 背中1色  "both_2c_1c" = 前と背中 前2色 背中1色 *)
(*   "both_1c_2c" = 前と背中 前1色 背中2色  "both_2c_2c" = 前と背中 前2色 背中2色 *)
(*   "both_full" = 前と背中 フルカラー                                      *)
(*   "set_name_num" = ネーム&背番号セット  "big_name" = ネーム(大)          *)
(*   "big_num" = 番号(大)   "no_back_name" = 背ネーム・番号を使わない       *)
(*   "kantan_mitsumori" = カンタン見積り   "omitsumori" = お見積り          *)
(*   "otoiawase" = お問い合わせ   "#yujin_chat" = #有人チャット             *)
(*   "campaign" = キャンペーン    "katarogu" = カタログ                     *)
(*   "yen" = ¥                                                             *)
(* and the product names as listed with PRICE_TABLE and valid_products.    *)
(***************************************************************************)
EXTENDS Integers, Sequences, FiniteSets, TLC

VARIABLES
  prog,                    \* which revision runs: "Bro" or "Cat"
  user_estimate_sessions,  \* the session store: user id -> session
  sheet,                   \* the rows of the quote worksheet, oldest first
  out,                     \* what the last handler run did (see Res)
  accepted,                \* history: the answers accepted in each live session
  runs,                    \* history: the priced runs, with their answers
  web_orders,              \* the rows of the WebOrderRequests worksheet, oldest first
  http,                    \* the last request of a web route and its response
  threads,                 \* the handler runs in progress, each at its own statement
  catalog,                 \* the catalog form: its sheet, the browser's cookie, the requests
  quoted                   \* history: the rows appended for each user since the user's last start

\* ---------------------------------------------------------------------
\* Bounds of the model
\* ---------------------------------------------------------------------
\* rows the quote sheet may hold before the model stops appending
MaxRows == 2
\* values of the wall clock (time.time(), in seconds) the model draws from
MaxTime == 2

Users == {"U1", "U2"}

\* ---------------------------------------------------------------------
\* Python's str operations, on texts
\* ---------------------------------------------------------------------
WS == " "

RECURSIVE lstrip(_)
lstrip(s) == IF s # <<>> /\ Head(s) = WS THEN lstrip(Tail(s)) ELSE s

RECURSIVE rstrip(_)
rstrip(s) ==
  IF s # <<>> /\ s[Len(s)] = WS THEN rstrip(SubSeq(s, 1, Len(s) - 1)) ELSE s

\* str.strip(): surrounding whitespace removed, inner whitespace kept
strip(s) == rstrip(lstrip(s))

\* str.replace(old, new) for a one-token old and a text new
RECURSIVE replace(_, _, _)
replace(s, old, new) ==
  IF s = <<>> THEN <<>>
  ELSE (IF Head(s) = old THEN new ELSE <<Head(s)>>) \o replace(Tail(s), old, new)

\* `tok in s` for a one-token needle
contains(s, tok) == \E i \in DOMAIN s : s[i] = tok

\* str.lower(): only the Latin tokens of the alphabet have an upper case
lower(s) ==
  [i \in DOMAIN s |->
     IF s[i] \in {"Catalog", "CATALOG"} THEN "catalog" ELSE s[i]]

DIGITS == <<"0", "1", "2", "3", "4", "5", "6", "7", "8", "9">>

\* str(n) of a non-negative int: its decimal digits
RECURSIVE str(_)
str(n) ==
  IF n < 10 THEN <<DIGITS[n + 1]>>
  ELSE str(n \div 10) \o <<DIGITS[(n % 10) + 1]>>

\* int(s) of a text of decimal digits
RECURSIVE int(_)
int(s) ==
  IF Len(s) = 1 THEN (CHOOSE d \in 0..9 : DIGITS[d + 1] = s[1])
  ELSE 10 * int(SubSeq(s, 1, Len(s) - 1))
         + (CHOOSE d \in 0..9 : DIGITS[d + 1] = s[Len(s)])

\* the "," format specifier: a comma before every group of three digits
RECURSIVE thousands(_)
thousands(d) ==
  IF Len(d) <= 3 THEN d
  ELSE thousands(SubSeq(d, 1, Len(d) - 3)) \o <<",">>
         \o SubSeq(d, Len(d) - 2, Len(d))

\* f"¥{n:,}"
yen(n) == <<"yen">> \o thousands(str(n))

\* dict.get(key, default) and dict[key] = value
get(d, k, default) == IF k \in DOMAIN d THEN d[k] ELSE default

put(d, k, v) == [x \in DOMAIN d \cup {k} |-> IF x = k THEN v ELSE d[x]]

\* del d[key]
del(d, k) == [x \in DOMAIN d \ {k} |-> d[x]]

\* the empty dict
EmptyDict == [x \in {} |-> <<>>]

\* Product names of Catalog_BOT.py:
\*   "DryTshirt" = ドライTシャツ
\*   "HeavyweightTshirt" = ヘビーウェイトTシャツ
\*   "DryPoloShirt" = ドライポロシャツ
\*   "DryMeshBibs" = ドライメッシュビブス
\*   "DryBaseballShirt" = ドライベースボールシャツ
\*   "DryLongSleeveTshirt" = ドライロングスリープTシャツ
\*   "DryHalfPants" = ドライハーフパンツ
\*   "HeavyweightLongSleeveTshirt" = ヘビーウェイトロングスリープTシャツ
\*   "CrewNeckLightTrainer" = クルーネックライトトレーナー
\*   "HoodedLightParka" = フーデッドライトパーカー
\*   "StandardTrainer" = スタンダードトレーナー
\*   "StandardWHoodParka" = スタンダードWフードパーカー
\*   "ZipUpLightParka" = ジップアップライトパーカー
PRICE_TABLE == <<
  <<"DryTshirt", 10, 14, "hayawari", 1830, 850, 850, 550, 900, 550, 550>>,
  <<"DryTshirt", 10, 14, "tsujo", 2030, 850, 850, 550, 900, 550, 550>>,
  <<"DryTshirt", 15, 19, "hayawari", 1470, 650, 650, 550, 900, 550, 550>>,
  <<"DryTshirt", 15, 19, "tsujo", 1670, 650, 650, 550, 900, 550, 550>>,
  <<"DryTshirt", 20, 29, "hayawari", 1230, 450, 450, 550, 900, 550, 550>>,
  <<"DryTshirt", 20, 29, "tsujo", 1430, 450, 450, 550, 900, 550, 550>>,
  <<"DryTshirt", 30, 39, "hayawari", 1060, 350, 350, 550, 900, 550, 550>>,
  <<"DryTshirt", 30, 39, "tsujo", 1260, 350, 350, 550, 900, 550, 550>>,
  <<"DryTshirt", 40, 49, "hayawari", 980, 350, 350, 550, 900, 550, 550>>,
  <<"DryTshirt", 40, 49, "tsujo", 1180, 350, 350, 550, 900, 550, 550>>,
  <<"DryTshirt", 50, 99, "hayawari", 890, 350, 350, 550, 900, 550, 550>>,
  <<"DryTshirt", 50, 99, "tsujo", 1090, 350, 350, 550, 900, 550, 550>>,
  <<"DryTshirt", 100, 500, "hayawari", 770, 300, 300, 550, 900, 550, 550>>,
  <<"DryTshirt", 100, 500, "tsujo", 970, 300, 300, 550, 900, 550, 550>>,
  <<"HeavyweightTshirt", 10, 14, "hayawari", 1970, 850, 850, 550, 900, 550, 550>>,
  <<"HeavyweightTshirt", 10, 14, "tsujo", 2170, 850, 850, 550, 900, 550, 550>>,
  <<"HeavyweightTshirt", 15, 19, "hayawari", 1610, 650, 650, 550, 900, 550, 550>>,
  <<"HeavyweightTshirt", 15, 19, "tsujo", 1810, 650, 650, 550, 900, 550, 550>>,
  <<"HeavyweightTshirt", 20, 29, "hayawari", 1370, 450, 450, 550, 900, 550, 550>>,
  <<"HeavyweightTshirt", 20, 29, "tsujo", 1570, 450, 450, 550, 900, 550, 550>>,
  <<"HeavyweightTshirt", 30, 39, "hayawari", 1200, 350, 350, 550, 900, 550, 550>>,
  <<"HeavyweightTshirt", 30, 39, "tsujo", 1400, 350, 350, 550, 900, 550, 550>>,
  <<"HeavyweightTshirt", 40, 49, "hayawari", 1120, 350, 350, 550, 900, 550, 550>>,
  <<"HeavyweightTshirt", 40, 49, "tsujo", 1320, 350, 350, 550, 900, 550, 550>>,
  <<"HeavyweightTshirt", 50, 99, "hayawari", 1030, 350, 350, 550, 900, 550, 550>>,
  <<"HeavyweightTshirt", 50, 99, "tsujo", 1230, 350, 350, 550, 900, 550, 550>>,
  <<"HeavyweightTshirt", 100, 500, "hayawari", 910, 300, 300, 550, 900, 550, 550>>,
  <<"HeavyweightTshirt", 100, 500, "tsujo", 1100, 300, 300, 550, 900, 550, 550>>,
  <<"DryPoloShirt", 10, 14, "hayawari", 2170, 850, 850, 550, 900, 550, 550>>,
  <<"DryPoloShirt", 10, 14, "tsujo", 2370, 850, 850, 550, 900, 550, 550>>,
  <<"DryPoloShirt", 15, 19, "hayawari", 1810, 650, 650, 550, 900, 550, 550>>,
  <<"DryPoloShirt", 15, 19, "tsujo", 2010, 650, 650, 550, 900, 550, 550>>,
  <<"DryPoloShirt", 20, 29, "hayawari", 1570, 450, 450, 550, 900, 550, 550>>,
  <<"DryPoloShirt", 20, 29, "tsujo", 1770, 450, 450, 550, 900, 550, 550>>,
  <<"DryPoloShirt", 30, 39, "hayawari", 1400, 350, 350, 550, 900, 550, 550>>,
  <<"DryPoloShirt", 30, 39, "tsujo", 1600, 350, 350, 550, 900, 550, 550>>,
  <<"DryPoloShirt", 40, 49, "hayawari", 1320, 350, 350, 550, 900, 550, 550>>,
  <<"DryPoloShirt", 40, 49, "tsujo", 1520, 350, 350, 550, 900, 550, 550>>,
  <<"DryPoloShirt", 50, 99, "hayawari", 1230, 350, 350, 550, 900, 550, 550>>,
  <<"DryPoloShirt", 50, 99, "tsujo", 1430, 350, 350, 550, 900, 550, 550>>,
  <<"DryPoloShirt", 100, 500, "hayawari", 1110, 300, 300, 550, 900, 550, 550>>,
  <<"DryPoloShirt", 100, 500, "tsujo", 1310, 300, 300, 550, 900, 550, 550>>,
  <<"DryMeshBibs", 10, 14, "hayawari", 2170, 850, 850, 550, 900, 550, 550>>,
  <<"DryMeshBibs", 10, 14, "tsujo", 2370, 850, 850, 550, 900, 550, 550>>,
  <<"DryMeshBibs", 15, 19, "hayawari", 1810, 650, 650, 550, 900, 550, 550>>,
  <<"DryMeshBibs", 15, 19, "tsujo", 2010, 650, 650, 550, 900, 550, 550>>,
  <<"DryMeshBibs", 20, 29, "hayawari", 1570, 450, 450, 550, 900, 550, 550>>,
  <<"DryMeshBibs", 20, 29, "tsujo", 1770, 450, 450, 550, 900, 550, 550>>,
  <<"DryMeshBibs", 30, 39, "hayawari", 1400, 350, 350, 550, 900, 550, 550>>,
  <<"DryMeshBibs", 30, 39, "tsujo", 1600, 350, 350, 550, 900, 550, 550>>,
  <<"DryMeshBibs", 40, 49, "hayawari", 1320, 350, 350, 550, 900, 550, 550>>,
  <<"DryMeshBibs", 40, 49, "tsujo", 1520, 350, 350, 550, 900, 550, 550>>,
  <<"DryMeshBibs", 50, 99, "hayawari", 1230, 350, 350, 550, 900, 550, 550>>,
  <<"DryMeshBibs", 50, 99, "tsujo", 1430, 350, 350, 550, 900, 550, 550>>,
  <<"DryMeshBibs", 100, 500, "hayawari", 1100, 300, 300, 550, 900, 550, 550>>,
  <<"DryMeshBibs", 100, 500, "tsujo", 1310, 300, 300, 550, 900, 550, 550>>,
  <<"DryBaseballShirt", 10, 14, "hayawari", 2470, 850, 850, 550, 900, 550, 550>>,
  <<"DryBaseballShirt", 10, 14, "tsujo", 2670, 850, 850, 550, 900, 550, 550>>,
  <<"DryBaseballShirt", 15, 19, "hayawari", 2110, 650, 650, 550, 900, 550, 550>>,
  <<"DryBaseballShirt", 15, 19, "tsujo", 2310, 650, 650, 550, 900, 550, 550>>,
  <<"DryBaseballShirt", 20, 29, "hayawari", 1870, 450, 450, 550, 900, 550, 550>>,
  <<"DryBaseballShirt", 20, 29, "tsujo", 2070, 450, 450, 550, 900, 550, 550>>,
  <<"DryBaseballShirt", 30, 39, "hayawari", 1700, 350, 350, 550, 900, 550, 550>>,
  <<"DryBaseballShirt", 30, 39, "tsujo", 1900, 350, 350, 550, 900, 550, 550>>,
  <<"DryBaseballShirt", 40, 49, "hayawari", 1620, 350, 350, 550, 900, 550, 550>>,
  <<"DryBaseballShirt", 40, 49, "tsujo", 1820, 350, 350, 550, 900, 550, 550>>,
  <<"DryBaseballShirt", 50, 99, "hayawari", 1530, 350, 350, 550, 900, 550, 550>>,
  <<"DryBaseballShirt", 50, 99, "tsujo", 1730, 350, 350, 550, 900, 550, 550>>,
  <<"DryBaseballShirt", 100, 500, "hayawari", 1410, 300, 300, 550, 900, 550, 550>>,
  <<"DryBaseballShirt", 100, 500, "tsujo", 1610, 300, 300, 550, 900, 550, 550>>,
  <<"DryLongSleeveTshirt", 10, 14, "hayawari", 2030, 850, 850, 550, 900, 550, 550>>,
  <<"DryLongSleeveTshirt", 10, 14, "tsujo", 2230, 850, 850, 550, 900, 550, 550>>,
  <<"DryLongSleeveTshirt", 15, 19, "hayawari", 1670, 650, 650, 550, 900, 550, 550>>,
  <<"DryLongSleeveTshirt", 15, 19, "tsujo", 1870, 650, 650, 550, 900, 550, 550>>,
  <<"DryLongSleeveTshirt", 20, 29, "hayawari", 1430, 450, 450, 550, 900, 550, 550>>,
  <<"DryLongSleeveTshirt", 20, 29, "tsujo", 1630, 450, 450, 550, 900, 550, 550>>,
  <<"DryLongSleeveTshirt", 30, 39, "hayawari", 1260, 350, 350, 550, 900, 550, 550>>,
  <<"DryLongSleeveTshirt", 30, 39, "tsujo", 1460, 350, 350, 550, 900, 550, 550>>,
  <<"DryLongSleeveTshirt", 40, 49, "hayawari", 1180, 350, 350, 550, 900, 550, 550>>,
  <<"DryLongSleeveTshirt", 40, 49, "tsujo", 1380, 350, 350, 550, 900, 550, 550>>,
  <<"DryLongSleeveTshirt", 50, 99, "hayawari", 1090, 350, 350, 550, 900, 550, 550>>,
  <<"DryLongSleeveTshirt", 50, 99, "tsujo", 1290, 350, 350, 550, 900, 550, 550>>,
  <<"DryLongSleeveTshirt", 100, 500, "hayawari", 970, 300, 300, 550, 900, 550, 550>>,
  <<"DryLongSleeveTshirt", 100, 500, "tsujo", 1170, 300, 300, 550, 900, 550, 550>>,
  <<"DryHalfPants", 10, 14, "hayawari", 2270, 850, 850, 550, 900, 550, 550>>,
  <<"DryHalfPants", 10, 14, "tsujo", 2470, 850, 850, 550, 900, 550, 550>>,
  <<"DryHalfPants", 15, 19, "hayawari", 1910, 650, 650, 550, 900, 550, 550>>,
  <<"DryHalfPants", 15, 19, "tsujo", 2110, 650, 650, 550, 900, 550, 550>>,
  <<"DryHalfPants", 20, 29, "hayawari", 1670, 450, 450, 550, 900, 550, 550>>,
  <<"DryHalfPants", 20, 29, "tsujo", 1870, 450, 450, 550, 900, 550, 550>>,
  <<"DryHalfPants", 30, 39, "hayawari", 1500, 350, 350, 550, 900, 550, 550>>,
  <<"DryHalfPants", 30, 39, "tsujo", 1700, 350, 350, 550, 900, 550, 550>>,
  <<"DryHalfPants", 40, 49, "hayawari", 1420, 350, 350, 550, 900, 550, 550>>,
  <<"DryHalfPants", 40, 49, "tsujo", 1620, 350, 350, 550, 900, 550, 550>>,
  <<"DryHalfPants", 50, 99, "hayawari", 1330, 350, 350, 550, 900, 550, 550>>,
  <<"DryHalfPants", 50, 99, "tsujo", 1530, 350, 350, 550, 900, 550, 550>>,
  <<"DryHalfPants", 100, 500, "hayawari", 1210, 300, 300, 550, 900, 550, 550>>,
  <<"DryHalfPants", 100, 500, "tsujo", 1410, 300, 300, 550, 900, 550, 550>>,
  <<"HeavyweightLongSleeveTshirt", 10, 14, "hayawari", 2330, 850, 850, 550, 900, 550, 550>>,
  <<"HeavyweightLongSleeveTshirt", 10, 14, "tsujo", 2530, 850, 850, 550, 900, 550, 550>>,
  <<"HeavyweightLongSleeveTshirt", 15, 19, "hayawari", 1970, 650, 650, 550, 900, 550, 550>>,
  <<"HeavyweightLongSleeveTshirt", 15, 19, "tsujo", 2170, 650, 650, 550, 900, 550, 550>>,
  <<"HeavyweightLongSleeveTshirt", 20, 29, "hayawari", 1730, 450, 450, 550, 900, 550, 550>>,
  <<"HeavyweightLongSleeveTshirt", 20, 29, "tsujo", 1930, 450, 450, 550, 900, 550, 550>>,
  <<"HeavyweightLongSleeveTshirt", 30, 39, "hayawari", 1560, 350, 350, 550, 900, 550, 550>>,
  <<"HeavyweightLongSleeveTshirt", 30, 39, "tsujo", 1760, 350, 350, 550, 900, 550, 550>>,
  <<"HeavyweightLongSleeveTshirt", 40, 49, "hayawari", 1480, 350, 350, 550, 900, 550, 550>>,
  <<"HeavyweightLongSleeveTshirt", 40, 49, "tsujo", 1680, 350, 350, 550, 900, 550, 550>>,
  <<"HeavyweightLongSleeveTshirt", 50, 99, "hayawari", 1390, 350, 350, 550, 900, 550, 550>>,
  <<"HeavyweightLongSleeveTshirt", 50, 99, "tsujo", 1590, 350, 350, 550, 900, 550, 550>>,
  <<"HeavyweightLongSleeveTshirt", 100, 500, "hayawari", 1270, 300, 300, 550, 900, 550, 550>>,
  <<"HeavyweightLongSleeveTshirt", 100, 500, "tsujo", 1470, 300, 300, 550, 900, 550, 550>>,
  <<"CrewNeckLightTrainer", 10, 14, "hayawari", 2870, 850, 850, 550, 900, 550, 550>>,
  <<"CrewNeckLightTrainer", 10, 14, "tsujo", 3070, 850, 850, 550, 900, 550, 550>>,
  <<"CrewNeckLightTrainer", 15, 19, "hayawari", 2510, 650, 650, 550, 900, 550, 550>>,
  <<"CrewNeckLightTrainer", 15, 19, "tsujo", 2710, 650, 650, 550, 900, 550, 550>>,
  <<"CrewNeckLightTrainer", 20, 29, "hayawari", 2270, 450, 450, 550, 900, 550, 550>>,
  <<"CrewNeckLightTrainer", 20, 29, "tsujo", 2470, 450, 450, 550, 900, 550, 550>>,
  <<"CrewNeckLightTrainer", 30, 39, "hayawari", 2100, 350, 350, 550, 900, 550, 550>>,
  <<"CrewNeckLightTrainer", 30, 39, "tsujo", 2300, 350, 350, 550, 900, 550, 550>>,
  <<"CrewNeckLightTrainer", 40, 49, "hayawari", 2020, 350, 350, 550, 900, 550, 550>>,
  <<"CrewNeckLightTrainer", 40, 49, "tsujo", 2220, 350, 350, 550, 900, 550, 550>>,
  <<"CrewNeckLightTrainer", 50, 99, "hayawari", 1930, 350, 350, 550, 900, 550, 550>>,
  <<"CrewNeckLightTrainer", 50, 99, "tsujo", 2130, 350, 350, 550, 900, 550, 550>>,
  <<"CrewNeckLightTrainer", 100, 500, "hayawari", 1810, 300, 300, 550, 900, 550, 550>>,
  <<"CrewNeckLightTrainer", 100, 500, "tsujo", 2010, 300, 300, 550, 900, 550, 550>>,
  <<"HoodedLightParka", 10, 14, "hayawari", 3270, 850, 850, 550, 900, 550, 550>>,
  <<"HoodedLightParka", 10, 14, "tsujo", 3470, 850, 850, 550, 900, 550, 550>>,
  <<"HoodedLightParka", 15, 19, "hayawari", 2910, 650, 650, 550, 900, 550, 550>>,
  <<"HoodedLightParka", 15, 19, "tsujo", 3110, 650, 650, 550, 900, 550, 550>>,
  <<"HoodedLightParka", 20, 29, "hayawari", 2670, 450, 450, 550, 900, 550, 550>>,
  <<"HoodedLightParka", 20, 29, "tsujo", 2870, 450, 450, 550, 900, 550, 550>>,
  <<"HoodedLightParka", 30, 39, "hayawari", 2500, 350, 350, 550, 900, 550, 550>>,
  <<"HoodedLightParka", 30, 39, "tsujo", 2700, 350, 350, 550, 900, 550, 550>>,
  <<"HoodedLightParka", 40, 49, "hayawari", 2420, 350, 350, 550, 900, 550, 550>>,
  <<"HoodedLightParka", 40, 49, "tsujo", 2620, 350, 350, 550, 900, 550, 550>>,
  <<"HoodedLightParka", 50, 99, "hayawari", 2330, 350, 350, 550, 900, 550, 550>>,
  <<"HoodedLightParka", 50, 99, "tsujo", 2530, 350, 350, 550, 900, 550, 550>>,
  <<"HoodedLightParka", 100, 500, "hayawari", 2210, 300, 300, 550, 900, 550, 550>>,
  <<"HoodedLightParka", 100, 500, "tsujo", 2410, 300, 300, 550, 900, 550, 550>>,
  <<"StandardTrainer", 10, 14, "hayawari", 3280, 850, 850, 550, 900, 550, 550>>,
  <<"StandardTrainer", 10, 14, "tsujo", 3480, 850, 850, 550, 900, 550, 550>>,
  <<"StandardTrainer", 15, 19, "hayawari", 2920, 650, 650, 550, 900, 550, 550>>,
  <<"StandardTrainer", 15, 19, "tsujo", 3120, 650, 650, 550, 900, 550, 550>>,
  <<"StandardTrainer", 20, 29, "hayawari", 2680, 450, 450, 550, 900, 550, 550>>,
  <<"StandardTrainer", 20, 29, "tsujo", 2880, 450, 450, 550, 900, 550, 550>>,
  <<"StandardTrainer", 30, 39, "hayawari", 2510, 350, 350, 550, 900, 550, 550>>,
  <<"StandardTrainer", 30, 39, "tsujo", 2710, 350, 350, 550, 900, 550, 550>>,
  <<"StandardTrainer", 40, 49, "hayawari", 2430, 350, 350, 550, 900, 550, 550>>,
  <<"StandardTrainer", 40, 49, "tsujo", 2630, 350, 350, 550, 900, 550, 550>>,
  <<"StandardTrainer", 50, 99, "hayawari", 2340, 350, 350, 550, 900, 550, 550>>,
  <<"StandardTrainer", 50, 99, "tsujo", 2540, 350, 350, 550, 900, 550, 550>>,
  <<"StandardTrainer", 100, 500, "hayawari", 2220, 300, 300, 550, 900, 550, 550>>,
  <<"StandardTrainer", 100, 500, "tsujo", 2420, 300, 300, 550, 900, 550, 550>>,
  <<"StandardWHoodParka", 10, 14, "hayawari", 4040, 850, 850, 550, 900, 550, 550>>,
  <<"StandardWHoodParka", 10, 14, "tsujo", 4240, 850, 850, 550, 900, 550, 550>>,
  <<"StandardWHoodParka", 15, 19, "hayawari", 3680, 650, 650, 550, 900, 550, 550>>,
  <<"StandardWHoodParka", 15, 19, "tsujo", 3880, 650, 650, 550, 900, 550, 550>>,
  <<"StandardWHoodParka", 20, 29, "hayawari", 3440, 450, 450, 550, 900, 550, 550>>,
  <<"StandardWHoodParka", 20, 29, "tsujo", 3640, 450, 450, 550, 900, 550, 550>>,
  <<"StandardWHoodParka", 30, 39, "hayawari", 3270, 350, 350, 550, 900, 550, 550>>,
  <<"StandardWHoodParka", 30, 39, "tsujo", 3470, 350, 350, 550, 900, 550, 550>>,
  <<"StandardWHoodParka", 40, 49, "hayawari", 3190, 350, 350, 550, 900, 550, 550>>,
  <<"StandardWHoodParka", 40, 49, "tsujo", 3390, 350, 350, 550, 900, 550, 550>>,
  <<"StandardWHoodParka", 50, 99, "hayawari", 3100, 350, 350, 550, 900, 550, 550>>,
  <<"StandardWHoodParka", 50, 99, "tsujo", 3300, 350, 350, 550, 900, 550, 550>>,
  <<"StandardWHoodParka", 100, 500, "hayawari", 2980, 300, 300, 550, 900, 550, 550>>,
  <<"StandardWHoodParka", 100, 500, "tsujo", 3180, 300, 300, 550, 900, 550, 550>>,
  <<"ZipUpLightParka", 10, 14, "hayawari", 3770, 850, 850, 550, 900, 550, 550>>,
  <<"ZipUpLightParka", 10, 14, "tsujo", 3970, 850, 850, 550, 900, 550, 550>>,
  <<"ZipUpLightParka", 15, 19, "hayawari", 3410, 650, 650, 550, 900, 550, 550>>,
  <<"ZipUpLightParka", 15, 19, "tsujo", 3610, 650, 650, 550, 900, 550, 550>>,
  <<"ZipUpLightParka", 20, 29, "hayawari", 3170, 450, 450, 550, 900, 550, 550>>,
  <<"ZipUpLightParka", 20, 29, "tsujo", 3370, 450, 450, 550, 900, 550, 550>>,
  <<"ZipUpLightParka", 30, 39, "hayawari", 3000, 350, 350, 550, 900, 550, 550>>,
  <<"ZipUpLightParka", 30, 39, "tsujo", 3200, 350, 350, 550, 900, 550, 550>>,
  <<"ZipUpLightParka", 40, 49, "hayawari", 2920, 350, 350, 550, 900, 550, 550>>,
  <<"ZipUpLightParka", 40, 49, "tsujo", 3120, 350, 350, 550, 900, 550, 550>>,
  <<"ZipUpLightParka", 50, 99, "hayawari", 2830, 350, 350, 550, 900, 550, 550>>,
  <<"ZipUpLightParka", 50, 99, "tsujo", 3030, 350, 350, 550, 900, 550, 550>>,
  <<"ZipUpLightParka", 100, 500, "hayawari", 2710, 300, 300, 550, 900, 550, 550>>,
  <<"ZipUpLightParka", 100, 500, "tsujo", 2910, 300, 300, 550, 900, 550, 550>>
>>

\* ---------------------------------------------------------------------
\* Catalog_BOT.py: pricing
\* ---------------------------------------------------------------------
COLOR_COST_MAP ==
  [c \in {"single_1c", "single_2c", "single_full", "both_1c_1c",
          "both_2c_1c", "both_1c_2c", "both_2c_2c", "both_full"} |->
     CASE c = "single_1c"   -> <<0, 0>>
       [] c = "single_2c"   -> <<1, 0>>
       [] c = "single_full" -> <<0, 1>>
       [] c = "both_1c_1c"  -> <<0, 0>>
       [] c = "both_2c_1c"  -> <<1, 0>>
       [] c = "both_1c_2c"  -> <<1, 0>>
       [] c = "both_2c_2c"  -> <<2, 0>>
       [] c = "both_full"   -> <<0, 2>>]

\* a line of PRICE_TABLE as the dict it is in the source: the values are
\* listed in the order of its keys
Row(t) ==
  [item |-> t[1], min_qty |-> t[2], max_qty |-> t[3], discount_type |-> t[4],
   unit_price |-> t[5], pos_add |-> t[6], color_add |-> t[7], fullcolor_add |-> t[8],
   set_name_num |-> t[9], big_name |-> t[10], big_num |-> t[11]]

\* the loop test of find_price_row with the lower bound excluded
MatchingRows_above_min(item_name, discount_type, quantity) ==
  SelectSeq([i \in DOMAIN PRICE_TABLE |-> Row(PRICE_TABLE[i])],
            LAMBDA row : /\ <<row.item>> = item_name
                         /\ <<row.discount_type>> = discount_type
                         /\ row.min_qty < quantity
                         /\ quantity <= row.max_qty)

\* the loop test of find_price_row without the test of the tier
MatchingRows_any_tier(item_name, discount_type, quantity) ==
  SelectSeq([i \in DOMAIN PRICE_TABLE |-> Row(PRICE_TABLE[i])],
            LAMBDA row : /\ <<row.item>> = item_name
                         /\ row.min_qty <= quantity
                         /\ quantity <= row.max_qty)

\* the rows that match, in table order; find_price_row returns the first
MatchingRows(item_name, discount_type, quantity) ==
  SelectSeq([i \in DOMAIN PRICE_TABLE |-> Row(PRICE_TABLE[i])],
            LAMBDA row : /\ <<row.item>> = item_name
                         /\ <<row.discount_type>> = discount_type
                         /\ row.min_qty <= quantity
                         /\ quantity <= row.max_qty)

\* find_price_row consuming the table: once a quote has been written the
\* rows are used up and nothing matches
find_price_row_consuming(item_name, discount_type, quantity) ==
  LET m == MatchingRows(item_name, discount_type, quantity)
  IN  IF m = <<>> \/ sheet # <<>> THEN <<>> ELSE <<Head(m)>>

\* None is modelled by the empty tuple, a row by the one-element tuple
find_price_row(item_name, discount_type, quantity) ==
  LET m == MatchingRows(item_name, discount_type, quantity)
  IN  IF m = <<>> THEN <<>> ELSE <<Head(m)>>

\* the position surcharge charged for two positions everywhere but "front only"
Cat_pos_add_back_charged(print_position, row) ==
  IF print_position = <<"front_only">> THEN 0 ELSE row.pos_add

\* the position surcharge (src: the if on print_position)
Cat_pos_add(print_position, row) ==
  IF print_position \in {<<"front_only">>, <<"back_only">>} THEN 0 ELSE row.pos_add

\* the color surcharge with the full-color count priced at color_add
Cat_color_fee_flat_rate(color_choice, row) ==
  LET cost == COLOR_COST_MAP[color_choice[1]]
  IN  cost[1] * row.color_add + cost[2] * row.color_add

\* the color surcharge
Cat_color_fee(color_choice, row) ==
  LET cost == COLOR_COST_MAP[color_choice[1]]
  IN  cost[1] * row.color_add + cost[2] * row.fullcolor_add

\* the name/number surcharge with the two large options swapped
Cat_back_name_fee_swapped(back_name, row) ==
  IF back_name = <<"set_name_num">> THEN row.set_name_num
  ELSE IF back_name = <<"big_name">> THEN row.big_num
  ELSE IF back_name = <<"big_num">> THEN row.set_name_num
  ELSE 0

\* the name/number surcharge
Cat_back_name_fee(back_name, row) ==
  IF back_name = <<"set_name_num">> THEN row.set_name_num
  ELSE IF back_name = <<"big_name">> THEN row.big_name
  ELSE IF back_name = <<"big_num">> THEN row.big_num
  ELSE 0

\* calculate_estimate multiplying the base price alone by the quantity
Cat_calculate_estimate_base_times_quantity(estimate_data) ==
  LET quantity == int(estimate_data["quantity"])
      found == find_price_row(estimate_data["item"], estimate_data["discount_type"], quantity)
  IN  IF found = <<>> THEN <<0, 0>>
      ELSE
        LET row == found[1]
            unit_price == row.unit_price + Cat_pos_add(estimate_data["print_position"], row)
                            + Cat_color_fee(estimate_data["color_count"], row)
                            + Cat_back_name_fee(estimate_data["back_name"], row)
        IN  <<row.unit_price * quantity + (unit_price - row.unit_price), unit_price>>

\* returns <<total_price, unit_price>>
Cat_calculate_estimate(estimate_data) ==
  LET item_name == estimate_data["item"]
      discount_type == estimate_data["discount_type"]
      quantity == int(estimate_data["quantity"])
      print_position == estimate_data["print_position"]
      color_choice == estimate_data["color_count"]
      back_name == estimate_data["back_name"]
      found == find_price_row(item_name, discount_type, quantity)
  IN  IF found = <<>> THEN <<0, 0>>
      ELSE
        LET row == found[1]
            base_price == row.unit_price
            pos_add == Cat_pos_add(print_position, row)
            color_fee == Cat_color_fee(color_choice, row)
            back_name_fee == Cat_back_name_fee(back_name, row)
            unit_price == base_price + pos_add + color_fee + back_name_fee
            total_price == unit_price * quantity
        IN  <<total_price, unit_price>>

\* ---------------------------------------------------------------------
\* Bro_shop_test.py: pricing
\* ---------------------------------------------------------------------
\* PRICE_TABLE_2025.py is imported by Bro_shop_test.py and is not part of
\* the sources at hand.  Its rows are read by calculate_estimate through
\* the keys item, pattern, quantity_range and unit_price; the two tables
\* below hold rows of that shape for one product and one pattern.
PRICE_TABLE_GENERAL == <<
  [item |-> <<"DryTshirt">>, pattern |-> <<"A">>, quantity_range |-> <<"10", "U+301C", "19sheets">>, unit_price |-> 2030],
  [item |-> <<"DryTshirt">>, pattern |-> <<"A">>, quantity_range |-> <<"20", "U+301C", "29sheets">>, unit_price |-> 1430],
  [item |-> <<"DryTshirt">>, pattern |-> <<"A">>, quantity_range |-> <<"30", "U+301C", "39sheets">>, unit_price |-> 1260],
  [item |-> <<"DryTshirt">>, pattern |-> <<"A">>, quantity_range |-> <<"40", "U+301C", "49sheets">>, unit_price |-> 1180],
  [item |-> <<"DryTshirt">>, pattern |-> <<"A">>, quantity_range |-> <<"50", "U+301C", "99sheets">>, unit_price |-> 1090],
  [item |-> <<"DryTshirt">>, pattern |-> <<"A">>, quantity_range |-> <<"100_or_more">>, unit_price |-> 1010]
>>

PRICE_TABLE_STUDENT == <<
  [item |-> <<"DryTshirt">>, pattern |-> <<"A">>, quantity_range |-> <<"10", "U+301C", "19sheets">>, unit_price |-> 1830],
  [item |-> <<"DryTshirt">>, pattern |-> <<"A">>, quantity_range |-> <<"20", "U+301C", "29sheets">>, unit_price |-> 1230],
  [item |-> <<"DryTshirt">>, pattern |-> <<"A">>, quantity_range |-> <<"30", "U+301C", "39sheets">>, unit_price |-> 1060],
  [item |-> <<"DryTshirt">>, pattern |-> <<"A">>, quantity_range |-> <<"40", "U+301C", "49sheets">>, unit_price |-> 980],
  [item |-> <<"DryTshirt">>, pattern |-> <<"A">>, quantity_range |-> <<"50", "U+301C", "99sheets">>, unit_price |-> 890],
  [item |-> <<"DryTshirt">>, pattern |-> <<"A">>, quantity_range |-> <<"100_or_more">>, unit_price |-> 810]
>>

\* quantity_map.get(qty_text, 1)
quantity_map(qty_text) ==
  CASE qty_text = <<"10", "U+301C", "19sheets">> -> 10
    [] qty_text = <<"20", "U+301C", "29sheets">> -> 20
    [] qty_text = <<"30", "U+301C", "39sheets">> -> 30
    [] qty_text = <<"40", "U+301C", "49sheets">> -> 40
    [] qty_text = <<"50", "U+301C", "99sheets">> -> 50
    [] qty_text = <<"100_or_more">> -> 100
    [] OTHER -> 1

\* get_quantity_range with its tests off by one
get_quantity_range_inclusive(qty) ==
  IF qty <= 20 THEN <<"10", "U+301C", "19sheets">>
  ELSE IF qty <= 30 THEN <<"20", "U+301C", "29sheets">>
  ELSE IF qty <= 40 THEN <<"30", "U+301C", "39sheets">>
  ELSE IF qty <= 50 THEN <<"40", "U+301C", "49sheets">>
  ELSE IF qty <= 100 THEN <<"50", "U+301C", "99sheets">>
  ELSE <<"100_or_more">>

get_quantity_range(qty) ==
  IF qty < 20 THEN <<"10", "U+301C", "19sheets">>
  ELSE IF qty < 30 THEN <<"20", "U+301C", "29sheets">>
  ELSE IF qty < 40 THEN <<"30", "U+301C", "39sheets">>
  ELSE IF qty < 50 THEN <<"40", "U+301C", "49sheets">>
  ELSE IF qty < 100 THEN <<"50", "U+301C", "99sheets">>
  ELSE <<"100_or_more">>

\* calculate_estimate up to its loop: the quantity value, the range it is
\* looked up under, and the rows the loop's test accepts, in table order
Bro_lookup(estimate_data) ==
  LET item == get(estimate_data, "item", <<>>)
      pattern_raw == get(estimate_data, "pattern", <<>>)
      qty_text_raw == get(estimate_data, "quantity", <<>>)
      user_type == get(estimate_data, "user_type", <<"general">>)
      pattern == strip(replace(pattern_raw, "pattern", <<>>))
      qty_text == strip(replace(qty_text_raw, "U+FF5E", <<"U+301C">>))
      quantity_value == quantity_map(qty_text)
      quantity_range == get_quantity_range(quantity_value)
      price_table == IF user_type = <<"student">> THEN PRICE_TABLE_STUDENT
                     ELSE PRICE_TABLE_GENERAL
  IN  [quantity_value |-> quantity_value,
       quantity_range |-> quantity_range,
       rows |-> SelectSeq(price_table,
                          LAMBDA row : /\ row.item = item
                                       /\ row.pattern = pattern
                                       /\ row.quantity_range = quantity_range)]

\* returns <<total_price, unit_price>>
Bro_calculate_estimate(estimate_data) ==
  LET l == Bro_lookup(estimate_data)
  IN  IF l.rows = <<>> THEN <<0, 0>>
      ELSE <<l.rows[1].unit_price * l.quantity_value, l.rows[1].unit_price>>


\* ---------------------------------------------------------------------
\* What a handler run does: the session store and the quote sheet it
\* leaves, the messages it replied with, and its steps in program order
\* ("call:f" a call of f, "answer" a write to answers, "step" a write to
\* step, "calc" a call of calculate_estimate, "append" a row appended,
\* "reply" a reply sent, "del" the session deleted, "raise" an exception
\* leaving the handler).
\* ---------------------------------------------------------------------
Res(S, L, replies, trace) ==
  [S |-> S, L |-> L, replies |-> replies, trace |-> trace, calc |-> <<>>]

\* the same, for a run that called calculate_estimate(args) and got result
Priced(r, args, result) ==
  [r EXCEPT !.calc = <<[args |-> args, result |-> result]>>]

\* session_data["answers"] and session_data["step"] written in place
Store(S, user_id, answers, step) ==
  [S EXCEPT ![user_id] = [@ EXCEPT !.answers = answers, !.step = step]]

\* a Flex prompt, named by the function that builds it
Flex(name) == [kind |-> name, fields |-> EmptyDict]

\* TextSendMessage(text=...), the text named by a token
TextSendMessage(text) == [kind |-> "text", fields |-> put(EmptyDict, "text", <<text>>)]

strftime(now) == <<"Y/m/d H:M:S">> \o str(now)

\* the header row get_or_create_worksheet writes to a new "簡易見積" sheet
\*   "nichiji" = 日時, "mitsumori_bango" = 見積番号, "user_id" = ユーザーID,
\*   "shiyobi(waribiki_kubun)" = 使用日(割引区分), "yosan" = 予算,
\*   "shohinmei" = 商品名, "maisu" = 枚数, "print_ichi" = プリント位置,
\*   "irosu" = 色数, "se_name" = 背ネーム, "gokei_kingaku" = 合計金額,
\*   "tanka" = 単価
Cat_estimate_headers == <<
  "nichiji", "mitsumori_bango", "user_id",
  "shiyobi(waribiki_kubun)", "yosan", "shohinmei", "maisu",
  "print_ichi", "irosu", "se_name",
  "gokei_kingaku", "tanka" >>

\* ---------------------------------------------------------------------
\* Catalog_BOT.py: the flow
\* ---------------------------------------------------------------------
\* returns the sheet with the row appended and the quote number
Cat_write_estimate_to_spreadsheet(L, user_id, estimate_data, total_price, unit_price, now) ==
  LET quote_number == str(now)
      new_row == <<
        strftime(now),
        quote_number,
        <<user_id>>,
        estimate_data["usage_date"] \o <<"(">> \o estimate_data["discount_type"] \o <<")">>,
        estimate_data["budget"],
        estimate_data["item"],
        estimate_data["quantity"],
        estimate_data["print_position"],
        estimate_data["color_count"],
        estimate_data["back_name"],
        yen(total_price),
        yen(unit_price) >>
  IN  [L |-> Append(L, new_row), quote_number |-> quote_number]

\* start_estimate_flow opening the session one step too far
Cat_start_estimate_flow_at_step_2(S, L, user_id) ==
  Res(put(S, user_id, [step |-> 2, answers |-> EmptyDict]), L,
      <<Flex("flex_usage_date")>>,
      <<"call:start_estimate_flow", "new", "reply">>)

Cat_start_estimate_flow(S, L, user_id) ==
  Res(put(S, user_id, [step |-> 1, answers |-> EmptyDict]), L,
      <<Flex("flex_usage_date")>>,
      <<"call:start_estimate_flow", "new", "reply">>)

Cat_budgets == {<<"1,000yen">>, <<"2,000yen">>, <<"3,000yen">>, <<"4,000yen">>, <<"5,000yen">>}

Cat_items == {
  <<"DryTshirt">>, <<"HeavyweightTshirt">>, <<"DryPoloShirt">>, <<"DryMeshBibs">>,
  <<"DryBaseballShirt">>, <<"DryLongSleeveTshirt">>, <<"DryHalfPants">>,
  <<"HeavyweightLongSleeveTshirt">>, <<"CrewNeckLightTrainer">>,
  <<"HoodedLightParka">>, <<"StandardTrainer">>, <<"StandardWHoodParka">>,
  <<"ZipUpLightParka">> }


\* valid_choices of step 4 with a quantity below every range of the table
Cat_valid_choices_from_five ==
  {<<"5">>, <<"1", "0">>, <<"2", "0">>, <<"3", "0">>, <<"4", "0">>, <<"5", "0">>, <<"1", "0", "0">>}

Cat_valid_choices == {<<"1", "0">>, <<"2", "0">>, <<"3", "0">>, <<"4", "0">>, <<"5", "0">>, <<"1", "0", "0">>}

Cat_valid_positions == {<<"front_only">>, <<"back_only">>, <<"front_and_back">>}

Cat_color_list == {<<c>> : c \in DOMAIN COLOR_COST_MAP}

Cat_valid_back_names == {<<"set_name_num">>, <<"big_name">>, <<"big_num">>, <<"no_back_name">>}

\* the text of the completion message, by the values it interpolates
Cat_reply_text(est_data, quantity, total_price, unit_price, quote_number) ==
  [kind |-> "result",
   fields |-> [quote_number |-> quote_number,
               usage_date |-> est_data["usage_date"],
               discount_type |-> est_data["discount_type"],
               budget |-> est_data["budget"],
               item |-> est_data["item"],
               quantity |-> str(quantity),
               print_position |-> est_data["print_position"],
               color_count |-> est_data["color_count"],
               back_name |-> est_data["back_name"],
               total_price |-> yen(total_price),
               unit_price |-> yen(unit_price)]]

\* step 7 with a valid answer, the session restored when the write fails
Cat_finish_rolling_back(S, L, user_id, user_message, ext, now) ==
  LET est_data == put(S[user_id].answers, "back_name", user_message)
      S1 == Store(S, user_id, est_data, 8)
      quantity == int(est_data["quantity"])
      price == Cat_calculate_estimate(est_data)
      w == Cat_write_estimate_to_spreadsheet(L, user_id, est_data, price[1], price[2], now)
      reply == Cat_reply_text(est_data, quantity, price[1], price[2], w.quote_number)
  IN  Priced(
        IF ext = "persist_fails"
        THEN Res(S, L, <<>>, <<"answer", "step", "calc", "raise">>)
        ELSE IF ext = "reply_fails"
        THEN Res(S1, w.L, <<>>, <<"answer", "step", "calc", "append", "raise">>)
        ELSE Res(del(S1, user_id), w.L, <<reply>>,
        <<"answer", "step", "calc", "append", "reply", "del">>),
        est_data, price)

\* step 7 with a valid answer
Cat_finish(S, L, user_id, user_message, ext, now) ==
  LET est_data == put(S[user_id].answers, "back_name", user_message)
      S1 == Store(S, user_id, est_data, 8)
      quantity == int(est_data["quantity"])
      price == Cat_calculate_estimate(est_data)
      w == Cat_write_estimate_to_spreadsheet(L, user_id, est_data, price[1], price[2], now)
      reply == Cat_reply_text(est_data, quantity, price[1], price[2], w.quote_number)
  IN  Priced(
        IF ext = "persist_fails"
        THEN Res(S1, L, <<>>, <<"answer", "step", "calc", "raise">>)
        ELSE IF ext = "reply_fails"
        THEN Res(S1, w.L, <<>>, <<"answer", "step", "calc", "append", "raise">>)
        ELSE Res(del(S1, user_id), w.L, <<reply>>,
        <<"answer", "step", "calc", "append", "reply", "del">>),
        est_data, price)

\* Cat_accept with the step written one too far
Cat_accept_skipping(S, L, user_id, answers, step, prompt) ==
  Res(Store(S, user_id, answers, step + 1), L, <<prompt>>, <<"answer", "step", "reply">>)

\* Cat_accept with the step left where it was
Cat_accept_keeping_step(S, L, user_id, answers, step, prompt) ==
  Res(Store(S, user_id, answers, S[user_id].step), L, <<prompt>>, <<"answer", "step", "reply">>)

\* a valid answer at a step before the last
Cat_accept(S, L, user_id, answers, step, prompt) ==
  Res(Store(S, user_id, answers, step), L, <<prompt>>, <<"answer", "step", "reply">>)

\* Cat_reject as the other revision rejects: the session is deleted
Cat_reject_deleting(S, L, user_id, text) ==
  Res(del(S, user_id), L, <<TextSendMessage(text)>>, <<"del", "reply">>)

\* an answer outside the step's choices
Cat_reject(S, L, user_id, text) ==
  Res(S, L, <<TextSendMessage(text)>>, <<"reply">>)

Cat_process_estimate_flow(S, L, user_id, user_message, ext, now) ==
  LET session_data == S[user_id]
      step == session_data.step
      answers == session_data.answers
  IN
  IF step = 1 THEN
    IF user_message \in {<<"14days_or_more">>, <<"within_14days">>}
    THEN Cat_accept(S, L, user_id,
           put(put(answers, "usage_date", user_message), "discount_type",
               IF user_message = <<"14days_or_more">> THEN <<"hayawari">> ELSE <<"tsujo">>),
           2, Flex("flex_budget"))
    ELSE Cat_reject(S, L, user_id, "select_usage_date")
  ELSE IF step = 2 THEN
    IF user_message \in Cat_budgets
    THEN Cat_accept(S, L, user_id, put(answers, "budget", user_message), 3, Flex("flex_item_select"))
    ELSE Cat_reject(S, L, user_id, "select_budget")
  ELSE IF step = 3 THEN
    IF user_message \in Cat_items
    THEN Cat_accept(S, L, user_id, put(answers, "item", user_message), 4, Flex("flex_quantity"))
    ELSE Cat_reject(S, L, user_id, "select_item")
  ELSE IF step = 4 THEN
    IF user_message \in Cat_valid_choices
    THEN Cat_accept(S, L, user_id, put(answers, "quantity", user_message), 5, Flex("flex_print_position"))
    ELSE Cat_reject(S, L, user_id, "select_quantity")
  ELSE IF step = 5 THEN
    IF user_message \in Cat_valid_positions
    THEN Cat_accept(S, L, user_id, put(answers, "print_position", user_message), 6, Flex("flex_color_count"))
    ELSE Cat_reject(S, L, user_id, "select_print_position")
  ELSE IF step = 6 THEN
    IF user_message \in Cat_color_list
    THEN Cat_accept(S, L, user_id, put(answers, "color_count", user_message), 7, Flex("flex_back_name"))
    ELSE Cat_reject(S, L, user_id, "select_color_count")
  ELSE IF step = 7 THEN
    IF user_message \in Cat_valid_back_names
    THEN Cat_finish(S, L, user_id, user_message, ext, now)
    ELSE Cat_reject(S, L, user_id, "select_back_name")
  ELSE
    Res(IF user_id \in DOMAIN S THEN del(S, user_id) ELSE S, L,
        <<TextSendMessage("error_start_over")>>, <<"reply", "del">>)

Cat_send_catalog_info(S, L) ==
  Res(S, L, <<TextSendMessage("catalog_info")>>, <<"call:send_catalog_info", "reply">>)

\* handle_message testing the start phrase before the session
Cat_handle_message_start_first(S, L, user_id, text, ext, now) ==
  LET user_message == strip(text) IN
  IF user_message = <<"omitsumori">> THEN
    Cat_start_estimate_flow(S, L, user_id)
  ELSE IF user_id \in DOMAIN S /\ S[user_id].step > 0 THEN
    LET r == Cat_process_estimate_flow(S, L, user_id, user_message, ext, now)
    IN  [r EXCEPT !.trace = <<"call:process_estimate_flow">> \o @]
  ELSE IF contains(user_message, "katarogu") \/ contains(lower(user_message), "catalog") THEN
    Cat_send_catalog_info(S, L)
  ELSE
    Res(S, L, <<>>, <<>>)

Cat_handle_message(S, L, user_id, text, ext, now) ==
  LET user_message == strip(text) IN
  IF user_id \in DOMAIN S /\ S[user_id].step > 0 THEN
    LET r == Cat_process_estimate_flow(S, L, user_id, user_message, ext, now)
    IN  [r EXCEPT !.trace = <<"call:process_estimate_flow">> \o @]
  ELSE IF user_message = <<"omitsumori">> THEN
    Cat_start_estimate_flow(S, L, user_id)
  ELSE IF contains(user_message, "katarogu") \/ contains(lower(user_message), "catalog") THEN
    Cat_send_catalog_info(S, L)
  ELSE
    Res(S, L, <<>>, <<>>)


\* ---------------------------------------------------------------------
\* Bro_shop_test.py: the flow
\* ---------------------------------------------------------------------
\* Product names of Bro_shop_test.py:
\*   "DryTshirt" = ドライTシャツ            "HighQualityTshirt" = ハイクオリティーTシャツ
\*   "DryLongTshirt" = ドライロングTシャツ   "DryPoloShirt" = ドライポロシャツ
\*   "GameShirt" = ゲームシャツ              "BaseballShirt" = ベースボールシャツ
\*   "StripeBaseballShirt" = ストライプベースボールシャツ
\*   "StripeUniform" = ストライプユニフォーム
\*   "CoolNeckLightTrainer" = クールネックライトトレーナー
\*   "ZipUpLightTrainer" = ジップアップライトトレーナー
\*   "HoodieLightTrainer" = フーディーライトトレーナー
\*   "BasketShirt" = バスケシャツ

\* the header row get_or_create_worksheet writes to a new "簡易見積" sheet
\*   "zokusei" = 属性, "web_form_url" = WebフォームURL
Bro_estimate_headers == <<
  "nichiji", "mitsumori_bango", "user_id", "zokusei",
  "shiyobi(waribiki_kubun)", "yosan", "shohinmei", "maisu",
  "print_ichi", "irosu", "se_name",
  "gokei_kingaku", "tanka", "web_form_url" >>

\* returns the sheet with the row appended and the quote number
Bro_write_estimate_to_spreadsheet(L, user_id, estimate_data, total_price, unit_price, now) ==
  LET quote_number == str(now)
      order_url == <<"web_order_form?quote_no=">> \o quote_number \o <<"&uid=", user_id>>
      now_jst_str == strftime(now)
      new_row == <<
        now_jst_str,
        quote_number,
        <<user_id>>,
        estimate_data["user_type"],
        estimate_data["usage_date"] \o <<"(">> \o estimate_data["discount_type"] \o <<")">>,
        get(estimate_data, "budget", <<>>),
        estimate_data["item"],
        estimate_data["quantity"],
        estimate_data["print_position"],
        estimate_data["color_count"],
        get(estimate_data, "back_name", <<>>),
        yen(unit_price),
        order_url >>
  IN  [L |-> Append(L, new_row), quote_number |-> quote_number]

Bro_start_estimate_flow(S, L, user_id) ==
  Res(put(S, user_id, [step |-> 1, answers |-> EmptyDict, is_single |-> FALSE]), L,
      <<Flex("flex_user_type")>>,
      <<"call:start_estimate_flow", "new", "reply">>)

Bro_valid_products == {
  <<"DryTshirt">>, <<"HighQualityTshirt">>, <<"DryLongTshirt">>, <<"DryPoloShirt">>,
  <<"GameShirt">>, <<"BaseballShirt">>, <<"StripeBaseballShirt">>, <<"StripeUniform">>,
  <<"CoolNeckLightTrainer">>, <<"ZipUpLightTrainer">>, <<"HoodieLightTrainer">>,
  <<"BasketShirt">> }

Bro_valid_patterns == {<<"pattern", p>> : p \in {"A", "B", "C", "D", "E", "F"}}

Bro_valid_choices == {
  <<"10", "U+FF5E", "19sheets">>, <<"20", "U+FF5E", "29sheets">>,
  <<"30", "U+FF5E", "39sheets">>, <<"40", "U+FF5E", "49sheets">>,
  <<"50", "U+FF5E", "99sheets">>, <<"100_or_more">> }

\* the result bubble, by the values it interpolates; quote_number is a
\* parameter the function never reads
flex_estimate_result_with_image(estimate_data, total_price, unit_price, quote_number) ==
  LET item == estimate_data["item"]
      pattern_raw == get(estimate_data, "pattern", <<>>)
      pattern == strip(replace(pattern_raw, "pattern", <<>>))
  IN  [kind |-> "result",
       fields |-> [image_url |-> item \o <<"_">> \o pattern \o <<".png">>,
                   alt_text |-> item,
                   user_type |-> estimate_data["user_type"],
                   usage_date |-> estimate_data["usage_date"],
                   discount_type |-> estimate_data["discount_type"],
                   item |-> item,
                   pattern |-> pattern_raw,
                   quantity |-> estimate_data["quantity"],
                   total_price |-> yen(total_price),
                   unit_price |-> yen(unit_price)]]


\* step 5 with a valid answer, the step left at 5
Bro_finish_keeping_step(S, L, user_id, user_message, ext, now) ==
  LET a1 == put(S[user_id].answers, "quantity", user_message)
      a2 == put(a1, "print_position", <<"front_only">>)
      a3 == put(a2, "color_count", <<"single_1c">>)
      est_data == put(a3, "back_name", <<>>)
      S1 == Store(S, user_id, est_data, 5)
      price == Bro_calculate_estimate(est_data)
      w == Bro_write_estimate_to_spreadsheet(L, user_id, est_data, price[1], price[2], now)
      flex_msg == flex_estimate_result_with_image(est_data, price[1], price[2], w.quote_number)
  IN  Priced(
        IF ext = "persist_fails"
        THEN Res(S1, L, <<>>, <<"answer", "step", "answer", "answer", "answer", "calc", "raise">>)
        ELSE IF ext = "reply_fails"
        THEN Res(S1, w.L, <<>>,
        <<"answer", "step", "answer", "answer", "answer", "calc", "append", "raise">>)
        ELSE Res(del(S1, user_id), w.L, <<flex_msg>>,
        <<"answer", "step", "answer", "answer", "answer", "calc", "append", "reply", "del">>),
        est_data, price)

\* step 5 with a valid answer
Bro_finish(S, L, user_id, user_message, ext, now) ==
  LET a1 == put(S[user_id].answers, "quantity", user_message)
      a2 == put(a1, "print_position", <<"front_only">>)
      a3 == put(a2, "color_count", <<"single_1c">>)
      est_data == put(a3, "back_name", <<>>)
      S1 == Store(S, user_id, est_data, 6)
      price == Bro_calculate_estimate(est_data)
      w == Bro_write_estimate_to_spreadsheet(L, user_id, est_data, price[1], price[2], now)
      flex_msg == flex_estimate_result_with_image(est_data, price[1], price[2], w.quote_number)
  IN  Priced(
        IF ext = "persist_fails"
        THEN Res(S1, L, <<>>, <<"answer", "step", "answer", "answer", "answer", "calc", "raise">>)
        ELSE IF ext = "reply_fails"
        THEN Res(S1, w.L, <<>>,
        <<"answer", "step", "answer", "answer", "answer", "calc", "append", "raise">>)
        ELSE Res(del(S1, user_id), w.L, <<flex_msg>>,
        <<"answer", "step", "answer", "answer", "answer", "calc", "append", "reply", "del">>),
        est_data, price)

\* Bro_accept storing a new dict that holds the new fields only
Bro_accept_forgetting(S, L, user_id, answers, step, prompt) ==
  Res(Store(S, user_id,
            [f \in DOMAIN answers \ DOMAIN S[user_id].answers |-> answers[f]], step),
      L, <<prompt>>, <<"answer", "step", "reply">>)


\* Bro_accept recording the answer without advancing the step
Bro_accept_keeping_step(S, L, user_id, answers, step, prompt) ==
  Res(Store(S, user_id, answers, step - 1), L, <<prompt>>, <<"answer", "step", "reply">>)

\* a valid answer at a step before the last
Bro_accept(S, L, user_id, answers, step, prompt) ==
  Res(Store(S, user_id, answers, step), L, <<prompt>>, <<"answer", "step", "reply">>)

\* Bro_reject clearing the whole session store
Bro_reject_clearing(S, L, user_id) ==
  Res(EmptyDict, L, <<TextSendMessage("input_error_start_over")>>, <<"del", "reply">>)

\* an answer outside the step's choices, at steps 1 to 4 and after step 5
Bro_reject(S, L, user_id) ==
  Res(del(S, user_id), L, <<TextSendMessage("input_error_start_over")>>, <<"del", "reply">>)

Bro_process_estimate_flow(S, L, user_id, user_message, ext, now) ==
  IF user_id \notin DOMAIN S THEN Res(S, L, <<>>, <<>>)
  ELSE
  LET session_data == S[user_id]
      step == session_data.step
      answers == session_data.answers
  IN
  IF step = 1 THEN
    IF user_message \in {<<"student">>, <<"general">>}
    THEN Bro_accept(S, L, user_id, put(answers, "user_type", user_message), 2, Flex("flex_usage_date"))
    ELSE Bro_reject(S, L, user_id)
  ELSE IF step = 2 THEN
    IF user_message \in {<<"after_day14">>, <<"within_day14">>}
    THEN Bro_accept(S, L, user_id,
           put(put(answers, "usage_date", user_message), "discount_type",
               IF user_message = <<"after_day14">> THEN <<"hayawari">> ELSE <<"tsujo">>),
           3, Flex("flex_item_select"))
    ELSE Bro_reject(S, L, user_id)
  ELSE IF step = 3 THEN
    IF user_message \in Bro_valid_products
    THEN Bro_accept(S, L, user_id, put(answers, "item", user_message), 4,
                    [kind |-> "flex_pattern_select",
                     fields |-> put(EmptyDict, "product_name", user_message)])
    ELSE Bro_reject(S, L, user_id)
  ELSE IF step = 4 THEN
    IF user_message \in Bro_valid_patterns
    THEN Bro_accept(S, L, user_id, put(answers, "pattern", user_message), 5, Flex("flex_quantity"))
    ELSE Bro_reject(S, L, user_id)
  ELSE IF step = 5 THEN
    IF user_message \in Bro_valid_choices
    THEN Bro_finish(S, L, user_id, user_message, ext, now)
    ELSE Res(S, L, <<>>, <<>>)
  ELSE Bro_reject(S, L, user_id)

Bro_send_catalog_info(S, L) ==
  Res(S, L, <<TextSendMessage("catalog_info")>>, <<"call:send_catalog_info", "reply">>)

\* handle_message without the session test: whatever is not the start
\* phrase goes to process_estimate_flow
Bro_handle_message_always_routes(S, L, user_id, text, ext, now) ==
  LET user_message == strip(text) IN
  IF user_message = <<"otoiawase">> THEN
    Res(S, L, <<Flex("flex_inquiry")>>, <<"reply">>)
  ELSE IF user_message = <<"#yujin_chat">> THEN
    Res(S, L, <<TextSendMessage("connect_to_staff_chat")>>, <<"reply">>)
  ELSE IF user_message = <<"kantan_mitsumori">> /\ user_id \notin DOMAIN S THEN
    Bro_start_estimate_flow(S, L, user_id)
  ELSE
    LET r == Bro_process_estimate_flow(S, L, user_id, user_message, ext, now)
    IN  [r EXCEPT !.trace = <<"call:process_estimate_flow">> \o @]

\* handle_message passing the text on as it was sent, not stripped
Bro_handle_message_unstripped(S, L, user_id, text, ext, now) ==
  LET user_message == text IN
  IF user_message = <<"otoiawase">> THEN
    Res(S, L, <<Flex("flex_inquiry")>>, <<"reply">>)
  ELSE IF user_message = <<"#yujin_chat">> THEN
    Res(S, L, <<TextSendMessage("connect_to_staff_chat")>>, <<"reply">>)
  ELSE IF user_id \in DOMAIN S /\ S[user_id].step > 0 THEN
    LET r == Bro_process_estimate_flow(S, L, user_id, user_message, ext, now)
    IN  [r EXCEPT !.trace = <<"call:process_estimate_flow">> \o @]
  ELSE IF user_message = <<"kantan_mitsumori">> THEN
    Bro_start_estimate_flow(S, L, user_id)
  ELSE IF contains(user_message, "campaign") \/ contains(lower(user_message), "catalog") THEN
    Bro_send_catalog_info(S, L)
  ELSE
    Res(S, L, <<>>, <<>>)


\* handle_message testing the start phrase before the session
Bro_handle_message_start_first(S, L, user_id, text, ext, now) ==
  LET user_message == strip(text) IN
  IF user_message = <<"otoiawase">> THEN
    Res(S, L, <<Flex("flex_inquiry")>>, <<"reply">>)
  ELSE IF user_message = <<"#yujin_chat">> THEN
    Res(S, L, <<TextSendMessage("connect_to_staff_chat")>>, <<"reply">>)
  ELSE IF user_message = <<"kantan_mitsumori">> THEN
    Bro_start_estimate_flow(S, L, user_id)
  ELSE IF user_id \in DOMAIN S /\ S[user_id].step > 0 THEN
    LET r == Bro_process_estimate_flow(S, L, user_id, user_message, ext, now)
    IN  [r EXCEPT !.trace = <<"call:process_estimate_flow">> \o @]
  ELSE IF contains(user_message, "campaign") \/ contains(lower(user_message), "catalog") THEN
    Bro_send_catalog_info(S, L)
  ELSE
    Res(S, L, <<>>, <<>>)


\* handle_message testing the session before the inquiry texts
Bro_handle_message_session_first(S, L, user_id, text, ext, now) ==
  LET user_message == strip(text) IN
  IF user_id \in DOMAIN S /\ S[user_id].step > 0 THEN
    LET r == Bro_process_estimate_flow(S, L, user_id, user_message, ext, now)
    IN  [r EXCEPT !.trace = <<"call:process_estimate_flow">> \o @]
  ELSE IF user_message = <<"otoiawase">> THEN
    Res(S, L, <<Flex("flex_inquiry")>>, <<"reply">>)
  ELSE IF user_message = <<"#yujin_chat">> THEN
    Res(S, L, <<TextSendMessage("connect_to_staff_chat")>>, <<"reply">>)
  ELSE IF user_message = <<"kantan_mitsumori">> THEN
    Bro_start_estimate_flow(S, L, user_id)
  ELSE IF contains(user_message, "campaign") \/ contains(lower(user_message), "catalog") THEN
    Bro_send_catalog_info(S, L)
  ELSE
    Res(S, L, <<>>, <<>>)

Bro_handle_message(S, L, user_id, text, ext, now) ==
  LET user_message == strip(text) IN
  IF user_message = <<"otoiawase">> THEN
    Res(S, L, <<Flex("flex_inquiry")>>, <<"reply">>)
  ELSE IF user_message = <<"#yujin_chat">> THEN
    Res(S, L, <<TextSendMessage("connect_to_staff_chat")>>, <<"reply">>)
  ELSE IF user_id \in DOMAIN S /\ S[user_id].step > 0 THEN
    LET r == Bro_process_estimate_flow(S, L, user_id, user_message, ext, now)
    IN  [r EXCEPT !.trace = <<"call:process_estimate_flow">> \o @]
  ELSE IF user_message = <<"kantan_mitsumori">> THEN
    Bro_start_estimate_flow(S, L, user_id)
  ELSE IF contains(user_message, "campaign") \/ contains(lower(user_message), "catalog") THEN
    Bro_send_catalog_info(S, L)
  ELSE
    Res(S, L, <<>>, <<>>)


\* ---------------------------------------------------------------------
\* The state machine
\* ---------------------------------------------------------------------
vars ==
  <<prog, user_estimate_sessions, sheet, out, accepted, runs, web_orders, http, threads,
    catalog, quoted>>

\* The texts a user sends.  A user answers the prompt on the screen with
\* one of its buttons, here the first, as it is or with whitespace around
\* it; a user with no prompt on the screen may send the first answer of
\* the flow.  Any user may send a start phrase, a text handle_message
\* answers itself, and a text no step accepts.
BroButton == <<
  <<"student">>, <<"after_day14">>, <<"DryTshirt">>, <<"pattern", "A">>,
  <<"10", "U+FF5E", "19sheets">> >>

CatButton == <<
  <<"14days_or_more">>, <<"1,000yen">>, <<"DryTshirt">>, <<"2", "0">>,
  <<"front_only">>, <<"single_1c">>, <<"no_back_name">> >>

Typed(button, S, u) ==
  LET k == IF u \in DOMAIN S /\ S[u].step \in DOMAIN button THEN S[u].step ELSE 1
  IN  {button[k], <<" ">> \o button[k] \o <<" ">>}

BroTexts(S, u) ==
  Typed(BroButton, S, u)
    \cup {<<"kantan_mitsumori">>, <<"otoiawase">>, <<"#yujin_chat">>, <<"Catalog">>, <<"abc">>}

CatTexts(S, u) ==
  Typed(CatButton, S, u) \cup {<<"omitsumori">>, <<"Catalog">>, <<"abc">>}

\* how the external calls of a handler run end
Ext == {"ok", "persist_fails", "reply_fails"}

\* time.time() never runs backwards: a clock read is not before the
\* read that stamped the newest row
ClockReads(L) == (IF L = <<>> THEN 1 ELSE int(L[Len(L)][2])) .. MaxTime

\* only a run that reaches the external calls of the last step can see
\* them fail; the clock is read by write_estimate_to_spreadsheet alone
Outcomes(r) == IF r.calc = <<>> THEN {"ok"} ELSE Ext

NoOut ==
  [user |-> "", raw |-> <<>>, text |-> <<>>, step |-> 0, replies |-> <<>>, trace |-> <<>>,
   calc |-> <<>>]

NoHttp ==
  [route |-> "", request |-> EmptyDict, status |-> 0, text |-> <<>>, initial_data |-> EmptyDict]

\* no request for the catalog form yet: the CatalogRequests sheet is empty,
\* the browser holds no session cookie, no uuid was drawn
NoCatalog == [rows |-> <<>>, jar |-> EmptyDict, uuids |-> 0, reqs |-> <<>>]

Init ==
  /\ prog \in {"Bro", "Cat"}
  /\ user_estimate_sessions = EmptyDict
  /\ sheet = <<>>
  /\ out = NoOut
  /\ accepted = EmptyDict
  /\ runs = {}
  /\ web_orders = <<>>
  /\ http = NoHttp
  /\ threads = <<>>
  /\ catalog = NoCatalog
  /\ quoted = EmptyDict

\* the history of a handler run r for user u on the stripped text m
Accepted(r, u, m) ==
  IF u \notin DOMAIN r.S THEN del(accepted, u)
  ELSE IF "new" \in {r.trace[i] : i \in DOMAIN r.trace} THEN put(accepted, u, <<>>)
  ELSE IF "answer" \in {r.trace[i] : i \in DOMAIN r.trace} THEN put(accepted, u, Append(accepted[u], m))
  ELSE accepted

Runs(r, u, m) ==
  runs \cup {[inputs |-> Append(accepted[u], m), answers |-> r.calc[i].args,
              total_price |-> r.calc[i].result[1], unit_price |-> r.calc[i].result[2]]
             : i \in DOMAIN r.calc}

\* the rows appended for each user since the user's last start, after a
\* handler run r for user u
Quoted(r, u) ==
  IF "new" \in {r.trace[i] : i \in DOMAIN r.trace} THEN put(quoted, u, 0)
  ELSE IF "append" \in {r.trace[i] : i \in DOMAIN r.trace}
  THEN put(quoted, u, get(quoted, u, 0) + 1)
  ELSE quoted

\* one webhook delivery of a text message, handled to its end
Deliver(r, u, text) ==
  /\ Len(r.L) <= MaxRows
  /\ user_estimate_sessions' = r.S
  /\ sheet' = r.L
  /\ out' = [user |-> u, raw |-> text, text |-> strip(text),
             step |-> IF u \in DOMAIN user_estimate_sessions
                      THEN user_estimate_sessions[u].step ELSE 0,
             replies |-> r.replies, trace |-> r.trace, calc |-> r.calc]
  /\ accepted' = Accepted(r, u, strip(text))
  /\ runs' = Runs(r, u, strip(text))
  /\ quoted' = Quoted(r, u)
  /\ UNCHANGED <<prog, web_orders, http, threads, catalog>>

BroMessage ==
  /\ prog = "Bro"
  /\ \E u \in Users : \E text \in BroTexts(user_estimate_sessions, u) :
       \E ext \in Outcomes(Bro_handle_message(user_estimate_sessions, sheet, u, text, "ok", 1)) :
         \E now \in (IF ext = "persist_fails" THEN {1} ELSE ClockReads(sheet)) :
           Deliver(Bro_handle_message(user_estimate_sessions, sheet, u, text, ext, now), u, text)

CatMessage ==
  /\ prog = "Cat"
  /\ \E u \in Users : \E text \in CatTexts(user_estimate_sessions, u) :
       \E ext \in Outcomes(Cat_handle_message(user_estimate_sessions, sheet, u, text, "ok", 1)) :
         \E now \in (IF ext = "persist_fails" THEN {1} ELSE ClockReads(sheet)) :
           Deliver(Cat_handle_message(user_estimate_sessions, sheet, u, text, ext, now), u, text)

Next == BroMessage \/ CatMessage

Spec == Init /\ [][Next]_vars

\* ---------------------------------------------------------------------
\* The flow as the specification tabulates it
\* ---------------------------------------------------------------------
\* the number of questions of the running revision
LastStep == IF prog = "Bro" THEN 5 ELSE 7

StartPhrase == IF prog = "Bro" THEN <<"kantan_mitsumori">> ELSE <<"omitsumori">>

\* step k's enumerated choice set
BroChoices(k) ==
  CASE k = 1 -> {<<"student">>, <<"general">>}
    [] k = 2 -> {<<"after_day14">>, <<"within_day14">>}
    [] k = 3 -> Bro_valid_products
    [] k = 4 -> Bro_valid_patterns
    [] k = 5 -> Bro_valid_choices
    [] OTHER -> {}

CatChoices(k) ==
  CASE k = 1 -> {<<"14days_or_more">>, <<"within_14days">>}
    [] k = 2 -> Cat_budgets
    [] k = 3 -> Cat_items
    [] k = 4 -> Cat_valid_choices
    [] k = 5 -> Cat_valid_positions
    [] k = 6 -> Cat_color_list
    [] k = 7 -> Cat_valid_back_names
    [] OTHER -> {}

Choices(k) == IF prog = "Bro" THEN BroChoices(k) ELSE CatChoices(k)

\* the field step k's answer is recorded under
Field(k) ==
  IF prog = "Bro"
  THEN <<"user_type", "usage_date", "item", "pattern", "quantity">>[k]
  ELSE <<"usage_date", "budget", "item", "quantity", "print_position",
         "color_count", "back_name">>[k]

\* the prompt of step k, by the function that builds it
Prompt(k) ==
  IF prog = "Bro"
  THEN <<"flex_user_type", "flex_usage_date", "flex_item_select",
         "flex_pattern_select", "flex_quantity">>[k]
  ELSE <<"flex_usage_date", "flex_budget", "flex_item_select", "flex_quantity",
         "flex_print_position", "flex_color_count", "flex_back_name">>[k]

\* the steps of the last handler run
Did(e) == \E i \in DOMAIN out.trace : out.trace[i] = e

\* the last message was handed to process_estimate_flow
Routed == Did("call:process_estimate_flow")

\* the user of the last message has a session now
Alive == out.user \in DOMAIN user_estimate_sessions

\* ---------------------------------------------------------------------
\* C1.  Bro_shop_test: at every step k in 1..5, a message that reaches the
\* step's validation and is not in step k's choice set leaves the user
\* without a session once it has been handled.
\* (The code keeps the session at step 5: the branch of step 5 has no else.)
\* ---------------------------------------------------------------------
C1_InvalidAnswerDeletesSession ==
  (prog = "Bro" /\ Routed /\ out.step \in 1..5 /\ out.text \notin BroChoices(out.step))
    => ~Alive

CatRetry ==
  <<"select_usage_date", "select_budget", "select_item", "select_quantity",
    "select_print_position", "select_color_count", "select_back_name">>

C3_ValidAnswerAdvancesOneStep ==
  [][/\ (out'.step \in 1..(LastStep - 1) /\ out'.text \in Choices(out'.step))
          => /\ out'.user \in DOMAIN user_estimate_sessions'
             /\ user_estimate_sessions'[out'.user].step = out'.step + 1
             /\ Field(out'.step) \in DOMAIN user_estimate_sessions'[out'.user].answers
             /\ user_estimate_sessions'[out'.user].answers[Field(out'.step)] = out'.text
             /\ Len(out'.replies) = 1
             /\ out'.replies[1].kind = Prompt(out'.step + 1)
     /\ \A u \in DOMAIN user_estimate_sessions \cap DOMAIN user_estimate_sessions' :
          user_estimate_sessions'[u].step
            \in {user_estimate_sessions[u].step, user_estimate_sessions[u].step + 1}
    ]_vars

\* the answer of step 3 has just been recorded and the prompt of step 4 sent
C3_Witness ==
  /\ out.step = 3 /\ out.text = <<"DryTshirt">>
  /\ Alive /\ user_estimate_sessions[out.user].step = 4
  /\ user_estimate_sessions[out.user].answers["item"] = <<"DryTshirt">>

\* the steps of a kind among the steps of the last handler run, in order
Order(kinds) == SelectSeq(out.trace, LAMBDA e : e \in kinds)

\* ---------------------------------------------------------------------
\* C4.  A valid answer at the last step, the external calls succeeding,
\* computes the price once, appends exactly one row, emits exactly one
\* result message, which carries the unit price, the total price and the
\* quote number of that row, and leaves the user without a session; the
\* row is appended before the result is emitted and the session is
\* removed last.
\* (The result bubble of Bro_shop_test carries no quote number.)
\* ---------------------------------------------------------------------
C4_FinalAnswerCompletesQuote ==
  [][(out'.step = LastStep /\ out'.text \in Choices(LastStep) /\ ~Did("raise")')
       => /\ Len(out'.calc) = 1
          /\ Len(sheet') = Len(sheet) + 1
          /\ SubSeq(sheet', 1, Len(sheet)) = sheet
          /\ sheet'[Len(sheet')][3] = <<out'.user>>
          /\ Len(out'.replies) = 1
          /\ out'.replies[1].kind = "result"
          /\ LET carried == {out'.replies[1].fields[f] : f \in DOMAIN out'.replies[1].fields}
             IN  /\ yen(out'.calc[1].result[1]) \in carried
                 /\ yen(out'.calc[1].result[2]) \in carried
                 /\ sheet'[Len(sheet')][2] \in carried
          /\ out'.user \notin DOMAIN user_estimate_sessions'
          /\ Order({"calc", "append", "reply", "del"})' = <<"calc", "append", "reply", "del">>
    ]_vars

C6_OnlyStartPhraseCreatesSession ==
  [][/\ \A u \in Users :
          (u \notin DOMAIN user_estimate_sessions /\ u \in DOMAIN user_estimate_sessions')
            => (out'.user = u /\ out'.text = StartPhrase)
     /\ (out'.user \notin DOMAIN user_estimate_sessions /\ out'.text = StartPhrase)
          => /\ out'.user \in DOMAIN user_estimate_sessions'
             /\ user_estimate_sessions'[out'.user].step = 1
             /\ user_estimate_sessions'[out'.user].answers = EmptyDict
             /\ out'.replies = <<Flex(Prompt(1))>>
    ]_vars

\* the start phrase has just created a session
C6_Witness ==
  /\ out.text = StartPhrase /\ out.step = 0 /\ Did("new")
  /\ Alive /\ user_estimate_sessions[out.user].step = 1

\* ---------------------------------------------------------------------
\* C7.  A message that is not the start phrase, from a user with no
\* session, is not handed to process_estimate_flow and leaves the session
\* store unchanged (no session is created).
\* ---------------------------------------------------------------------
C7_UnrelatedMessageIgnored ==
  [][(out'.user \notin DOMAIN user_estimate_sessions /\ out'.text # StartPhrase)
       => /\ ~Routed'
          /\ user_estimate_sessions' = user_estimate_sessions
    ]_vars

\* a valid first answer has been handled for a user with no session
C7_Witness ==
  /\ out.user \in Users /\ out.step = 0 /\ out.text \in Choices(1)
  /\ ~Alive

\* ---------------------------------------------------------------------
\* C8.  Within a session the answers only grow: a field once set keeps
\* its value through every later message handled in that session.
\* ---------------------------------------------------------------------
C8_AnswersOnlyGrow ==
  [][\A u \in DOMAIN user_estimate_sessions \cap DOMAIN user_estimate_sessions' :
       \A f \in DOMAIN user_estimate_sessions[u].answers :
         /\ f \in DOMAIN user_estimate_sessions'[u].answers
         /\ user_estimate_sessions'[u].answers[f] = user_estimate_sessions[u].answers[f]
    ]_vars

\* an answer has just been added to a session that held three fields
C8_Witness ==
  /\ Did("answer") /\ Alive
  /\ Cardinality(DOMAIN user_estimate_sessions[out.user].answers) >= 4

\* ---------------------------------------------------------------------
\* C9.  Every user starts with no session, and handling a message of one
\* user leaves every other user's session (presence, step, answers) as it
\* was.
\* ---------------------------------------------------------------------
C9_OtherUsersUntouched ==
  /\ user_estimate_sessions = EmptyDict
  /\ [][\A v \in Users \ {out'.user} :
          /\ (v \in DOMAIN user_estimate_sessions) <=> (v \in DOMAIN user_estimate_sessions')
          /\ v \in DOMAIN user_estimate_sessions
               => user_estimate_sessions'[v] = user_estimate_sessions[v]
       ]_vars

\* a message of one user has ended that user's session while the other
\* user's session, at a later step, stayed
C9_Witness ==
  /\ Did("del") /\ ~Alive
  /\ \E v \in Users \ {out.user} :
       v \in DOMAIN user_estimate_sessions /\ user_estimate_sessions[v].step >= 3

MaxQuantity == 501

\* the usage date and the discount tier as step 1 of Catalog_BOT's flow
\* stores them for the answer m
Cat_usage(m) ==
  Cat_process_estimate_flow(put(EmptyDict, "U1", [step |-> 1, answers |-> EmptyDict]),
                            <<>>, "U1", m, "ok", 1).S["U1"].answers

\* answer sets for Catalog_BOT's calculate_estimate: what the flow can
\* store, and an item, a tier and quantities the table does not hold
CatQueries ==
  {u @@ o :
     u \in {Cat_usage(m) : m \in {<<"14days_or_more">>, <<"within_14days">>}}
           \cup {[usage_date |-> <<"abc">>, discount_type |-> <<"abc">>]},
     o \in [item : Cat_items \cup {<<"abc">>},
            quantity : Cat_valid_choices \cup {<<"5">>, <<"5", "0", "1">>},
            print_position : Cat_valid_positions,
            color_count : Cat_color_list,
            back_name : Cat_valid_back_names \cup {<<"abc">>}]}

\* the usage date and the discount tier as step 2 of Bro_shop_test's flow
\* stores them for the answer m
Bro_usage(m) ==
  Bro_process_estimate_flow(put(EmptyDict, "U1", [step |-> 2, answers |-> EmptyDict]),
                            <<>>, "U1", m, "ok", 1).S["U1"].answers

\* answer sets for Bro_shop_test's calculate_estimate
BroQueries ==
  {u @@ o :
     u \in {Bro_usage(m) : m \in {<<"after_day14">>, <<"within_day14">>}},
     o \in [item : {<<"DryTshirt">>, <<"abc">>},
            pattern : {<<"pattern", "A">>, <<"pattern", "Z">>},
            quantity : Bro_valid_choices
                         \cup {<<"5sheets">>, <<"1", "U+FF5E", "9sheets">>,
                               <<"20", "U+301C", "29sheets">>, <<" ", "100_or_more">>},
            user_type : {<<"student">>, <<"general">>}]}

\* the price tables bound as names of the module Bro_shop_test
Bro_price_tables == {"PRICE_TABLE_GENERAL", "PRICE_TABLE_STUDENT"}

PositionKeys == <<"printPositionNo1", "printPositionNo2", "printPositionNo3", "printPositionNo4">>

\* calculate_web_order_estimate on a form with no print color, full color
\* size, single color or edge type: _find reads the name PRICE_TABLE
Bro_calculate_web_order_estimate(data) ==
  LET item == get(data, "productName", <<>>)
      qty_text == get(data, "totalQuantity", <<"0">>)
      qty == IF qty_text = <<>> THEN 0 ELSE int(qty_text)
      discount_type == IF get(data, "discountOption", <<>>) = <<"hayawari">>
                       THEN <<"hayawari">> ELSE <<"tsujo">>
      pos_cnt == Cardinality({i \in 1..4 : get(data, PositionKeys[i], <<>>) # <<>>})
  IN  IF "PRICE_TABLE" \notin Bro_price_tables THEN [raise |-> "NameError"]
      ELSE
        LET found == find_price_row(item, discount_type, qty)
        IN  IF found = <<>>
            THEN [unit_price |-> 0, total_price |-> 0, base_unit |-> 0, pos_add_fee |-> 0,
                  color_fee |-> 0, back_name_fee |-> 0, option_ink_extra |-> 0,
                  fullcolor_extra |-> 0, qty |-> qty]
            ELSE
              LET base_unit == found[1].unit_price
                  pos_add_fee == found[1].pos_add * (IF pos_cnt > 1 THEN pos_cnt - 1 ELSE 0)
                  unit_price == base_unit + pos_add_fee
              IN  [unit_price |-> unit_price,
                   total_price |-> unit_price * qty,
                   base_unit |-> base_unit, pos_add_fee |-> pos_add_fee,
                   color_fee |-> 0, back_name_fee |-> 0, option_ink_extra |-> 0,
                   fullcolor_extra |-> 0, qty |-> qty]

\*   "mae" = 前, "senaka" = 背中, "hidari_sode" = 左袖
WebOrderQueries ==
  [productName : {<<"DryTshirt">>, <<"abc">>},
   totalQuantity : {<<"5">>, <<"2", "0">>, <<"5", "0", "1">>},
   discountOption : {<<"hayawari">>, <<"tsujo">>},
   printPositionNo1 : {<<>>, <<"mae">>},
   printPositionNo2 : {<<>>, <<"senaka">>},
   printPositionNo3 : {<<>>, <<"hidari_sode">>}]

\* one call of function f on args that returned result, or raised it
Call(f, args, result, raised) ==
  /\ out' = [NoOut EXCEPT
               !.trace = <<"call:" \o f>> \o (IF raised THEN <<"raise">> ELSE <<>>),
               !.calc = <<[args |-> args, result |-> result]>>]
  /\ UNCHANGED <<prog, user_estimate_sessions, sheet, accepted, runs, web_orders, http, threads,
                  catalog, quoted>>

CatPrice ==
  /\ prog = "Cat"
  /\ out = NoOut
  /\ \E q \in CatQueries : Call("calculate_estimate", q, Cat_calculate_estimate(q), FALSE)

CatFindPriceRow ==
  /\ prog = "Cat"
  /\ out = NoOut
  /\ \E item_name \in Cat_items \cup {<<"abc">>} :
       \E discount_type \in {<<"hayawari">>, <<"tsujo">>, <<"abc">>} :
         \E quantity \in 0..MaxQuantity :
           Call("find_price_row", <<item_name, discount_type, quantity>>,
                find_price_row(item_name, discount_type, quantity), FALSE)

BroPrice ==
  /\ prog = "Bro"
  /\ out = NoOut
  /\ \E q \in BroQueries : Call("calculate_estimate", q, Bro_calculate_estimate(q), FALSE)

BroWebOrderPrice ==
  /\ prog = "Bro"
  /\ out = NoOut
  /\ \E data \in WebOrderQueries :
       LET r == Bro_calculate_web_order_estimate(data)
       IN  Call("calculate_web_order_estimate", data, r, "raise" \in DOMAIN r)

PriceNext == CatPrice \/ CatFindPriceRow \/ BroPrice \/ BroWebOrderPrice

PriceSpec == Init /\ [][PriceNext]_vars

\* the last step was one call of f
Called(f) == Len(out.calc) = 1 /\ out.trace[1] = "call:" \o f

\* the rows calculate_estimate finds for the answer set a, in table order
RowsFor(a) ==
  IF prog = "Cat"
  THEN MatchingRows(a.item, a.discount_type, int(a.quantity))
  ELSE Bro_lookup(a).rows

\* the rows that match the answer set the last call priced
PricedRows == RowsFor(out.calc[1].args)

\* ---------------------------------------------------------------------
\* C11.  When no rate row matches the (item, discount tier, quantity) of
\* the answers, the pricing function returns unit price 0 and total price
\* 0 as a value and does not raise: calculate_estimate of both programs
\* and calculate_web_order_estimate.
\* (calculate_web_order_estimate reads the name PRICE_TABLE, which the
\* module Bro_shop_test does not bind: it raises on every form.)
\* ---------------------------------------------------------------------
C11_NoMatchPricesZero ==
  /\ (Called("calculate_estimate") /\ PricedRows = <<>>)
       => (~Did("raise") /\ out.calc[1].result = <<0, 0>>)
  /\ (Called("calculate_web_order_estimate")
        /\ MatchingRows(out.calc[1].args.productName,
                        IF out.calc[1].args.discountOption = <<"hayawari">>
                        THEN <<"hayawari">> ELSE <<"tsujo">>,
                        int(out.calc[1].args.totalQuantity)) = <<>>)
       => /\ ~Did("raise")
          /\ out.calc[1].result.unit_price = 0
          /\ out.calc[1].result.total_price = 0

\* the quantity of the priced answers lies below the first range of the table
BelowMinimum ==
  IF prog = "Cat" THEN int(out.calc[1].args.quantity) < 10
  ELSE out.calc[1].args.quantity \in {<<"5sheets">>, <<"1", "U+FF5E", "9sheets">>}

\* the price of the same answers with the quantity at the floor of the
\* first range
AtMinimum ==
  IF prog = "Cat"
  THEN Cat_calculate_estimate([out.calc[1].args EXCEPT !.quantity = <<"1", "0">>])
  ELSE Bro_calculate_estimate([out.calc[1].args EXCEPT !.quantity = <<"10", "U+FF5E", "19sheets">>])

\* ---------------------------------------------------------------------
\* C12.  A quantity below the first range of the table is priced as the
\* floor of that range, 10: the unit price is that of the first range's
\* row and the total is that unit price times 10.
\* (Catalog_BOT finds no row and returns (0, 0); Bro_shop_test takes the
\* first range's row but multiplies by 1.)
\* ---------------------------------------------------------------------
C12_BelowMinimumPricedAsTen ==
  (Called("calculate_estimate") /\ BelowMinimum /\ AtMinimum # <<0, 0>>)
    => /\ out.calc[1].result = AtMinimum
       /\ out.calc[1].result[1] = 10 * out.calc[1].result[2]

\* the floor of the range a step-5 choice of Bro_shop_test names
LowerBound(choice) ==
  CASE choice = <<"10", "U+FF5E", "19sheets">> -> 10
    [] choice = <<"20", "U+FF5E", "29sheets">> -> 20
    [] choice = <<"30", "U+FF5E", "39sheets">> -> 30
    [] choice = <<"40", "U+FF5E", "49sheets">> -> 40
    [] choice = <<"50", "U+FF5E", "99sheets">> -> 50
    [] choice = <<"100_or_more">> -> 100

\* ---------------------------------------------------------------------
\* C13.  In Bro_shop_test each of the six quantity choices of step 5, as
\* the flow stores it, is normalised by calculate_estimate to the floor of
\* its range (10, 20, 30, 40, 50, 100), is looked up under that same
\* range, and is priced as the unit price of that range's row times the
\* floor.
\* ---------------------------------------------------------------------
C13_ChoicePricedAtFloorOfItsRange ==
  (prog = "Bro" /\ Called("calculate_estimate")
     /\ out.calc[1].args.quantity \in Bro_valid_choices)
    => LET choice == out.calc[1].args.quantity
           l == Bro_lookup(out.calc[1].args)
       IN  /\ l.quantity_value = LowerBound(choice)
           /\ replace(l.quantity_range, "U+301C", <<"U+FF5E">>) = choice
           /\ l.rows # <<>>
                => /\ l.rows[1].quantity_range = l.quantity_range
                   /\ out.calc[1].result =
                        <<l.rows[1].unit_price * LowerBound(choice), l.rows[1].unit_price>>

\* the choice of 50 to 99 sheets has been priced from a row
C13_Witness ==
  /\ prog = "Bro" /\ Called("calculate_estimate")
  /\ out.calc[1].args.quantity = <<"50", "U+FF5E", "99sheets">>
  /\ out.calc[1].result[2] > 0
  /\ out.calc[1].result[1] = 50 * out.calc[1].result[2]

\* the usage-date choice that earns the early discount
EarlyChoice == IF prog = "Cat" THEN <<"14days_or_more">> ELSE <<"after_day14">>

\* the discount tier a rate row belongs to, <<>> for a row that has none
RowTier(row) == IF "discount_type" \in DOMAIN row THEN <<row.discount_type>> ELSE <<>>

\* ---------------------------------------------------------------------
\* C14.  The rate row a completed session is priced from has the
\* session's item, the tier derived from its usage-date answer (hayawari
\* for the early choice, tsujo for the other) and a range that holds its
\* quantity: the same answers with the other tier are priced from another
\* row.
\* (calculate_estimate of Bro_shop_test never reads discount_type: it
\* picks the table by user_type and the row by item, pattern and range.)
\* ---------------------------------------------------------------------
C14_PricedFromOwnTier ==
  (Called("calculate_estimate") /\ PricedRows # <<>>)
    => LET a == out.calc[1].args
           row == PricedRows[1]
           tier == IF a.usage_date = EarlyChoice THEN <<"hayawari">> ELSE <<"tsujo">>
           other == IF tier = <<"hayawari">> THEN <<"tsujo">> ELSE <<"hayawari">>
       IN  /\ a.discount_type = tier
           /\ RowTier(row) = tier
           /\ RowsFor([a EXCEPT !.discount_type = other]) # PricedRows
           /\ IF prog = "Cat"
              THEN /\ <<row.item>> = a.item
                   /\ row.min_qty <= int(a.quantity)
                   /\ int(a.quantity) <= row.max_qty
              ELSE /\ row.item = a.item
                   /\ row.quantity_range = Bro_lookup(a).quantity_range

\* the surcharges as the price list states them, for answers a priced from row
PositionFee(a, row) ==
  CASE a.print_position = <<"front_only">> -> 0
    [] a.print_position = <<"back_only">> -> 0
    [] a.print_position = <<"front_and_back">> -> row.pos_add

ColorFee(a, row) ==
  COLOR_COST_MAP[a.color_count[1]][1] * row.color_add
    + COLOR_COST_MAP[a.color_count[1]][2] * row.fullcolor_add

NameFee(a, row) ==
  CASE a.back_name = <<"set_name_num">> -> row.set_name_num
    [] a.back_name = <<"big_name">> -> row.big_name
    [] a.back_name = <<"big_num">> -> row.big_num
    [] OTHER -> 0

\* Catalog_BOT's calculate_estimate has priced the answers from a row
CatPriced == prog = "Cat" /\ Called("calculate_estimate") /\ PricedRows # <<>>

\* ---------------------------------------------------------------------
\* C15.  In Catalog_BOT, whenever a rate row matches, calculate_estimate
\* returns unit price = the row's base price + position fee + color fee +
\* name/number fee and total price = unit price x quantity, in integers.
\* ---------------------------------------------------------------------
C15_UnitIsSumTotalIsProduct ==
  CatPriced
    => LET a == out.calc[1].args
           row == PricedRows[1]
       IN  /\ out.calc[1].result[2] =
                row.unit_price + PositionFee(a, row) + ColorFee(a, row) + NameFee(a, row)
           /\ out.calc[1].result[1] = out.calc[1].result[2] * int(a.quantity)
           /\ out.calc[1].result[1] \in Nat
           /\ out.calc[1].result[2] \in Nat

\* answers with all three surcharges have been priced for 30 pieces
C15_Witness ==
  /\ CatPriced
  /\ out.calc[1].args.quantity = <<"3", "0">>
  /\ out.calc[1].args.print_position = <<"front_and_back">>
  /\ out.calc[1].args.color_count = <<"both_2c_2c">>
  /\ out.calc[1].args.back_name = <<"set_name_num">>
  /\ out.calc[1].result[2] > PricedRows[1].unit_price

\* ---------------------------------------------------------------------
\* C16.  In Catalog_BOT the position fee, what the unit price holds
\* beyond the base price, the color fee and the name/number fee, is 0
\* for "front only" and for "back only" and the row's pos_add for "front
\* and back".
\* ---------------------------------------------------------------------
C16_PositionFee ==
  CatPriced
    => LET a == out.calc[1].args
           row == PricedRows[1]
           fee == out.calc[1].result[2] - row.unit_price - ColorFee(a, row) - NameFee(a, row)
       IN  /\ a.print_position \in {<<"front_only">>, <<"back_only">>} => fee = 0
           /\ a.print_position = <<"front_and_back">> => fee = row.pos_add

\* "back only" has been priced from a row whose pos_add is not 0
C16_Witness ==
  /\ CatPriced
  /\ out.calc[1].args.print_position = <<"back_only">>
  /\ PricedRows[1].pos_add > 0

\* ---------------------------------------------------------------------
\* C17.  In Catalog_BOT the color fee, what the unit price holds beyond
\* the base price, the position fee and the name/number fee, is extra_flat
\* x color_add + extra_full x fullcolor_add of the row, for the pair
\* COLOR_COST_MAP gives for the choice; "front and back, full color"
\* printed front and back gives base + pos_add + 2 x fullcolor_add.
\* ---------------------------------------------------------------------
C17_ColorFee ==
  CatPriced
    => LET a == out.calc[1].args
           row == PricedRows[1]
           pair == COLOR_COST_MAP[a.color_count[1]]
           fee == out.calc[1].result[2] - row.unit_price - PositionFee(a, row) - NameFee(a, row)
       IN  /\ fee = pair[1] * row.color_add + pair[2] * row.fullcolor_add
           /\ (/\ a.color_count = <<"both_full">>
               /\ a.print_position = <<"front_and_back">>
               /\ a.back_name = <<"no_back_name">>)
                => out.calc[1].result[2] = row.unit_price + row.pos_add + 2 * row.fullcolor_add

\* "front and back, full color" has been priced for 100 pieces, front and back
C17_Witness ==
  /\ CatPriced
  /\ out.calc[1].args.color_count = <<"both_full">>
  /\ out.calc[1].args.print_position = <<"front_and_back">>
  /\ out.calc[1].args.back_name = <<"no_back_name">>
  /\ out.calc[1].args.quantity = <<"1", "0", "0">>
  /\ PricedRows[1].fullcolor_add # PricedRows[1].color_add

\* ---------------------------------------------------------------------
\* C18.  In Catalog_BOT the name/number fee, what the unit price holds
\* beyond the base price, the position fee and the color fee, is the
\* row's set_name_num for the name and number set, big_name for the large
\* name, big_num for the large number, and 0 for "no back name" and for
\* any other value.
\* ---------------------------------------------------------------------
C18_NameNumberFee ==
  CatPriced
    => LET a == out.calc[1].args
           row == PricedRows[1]
           fee == out.calc[1].result[2] - row.unit_price - PositionFee(a, row) - ColorFee(a, row)
       IN  fee = (IF a.back_name = <<"set_name_num">> THEN row.set_name_num
                  ELSE IF a.back_name = <<"big_name">> THEN row.big_name
                  ELSE IF a.back_name = <<"big_num">> THEN row.big_num
                  ELSE 0)

\* a value outside the four options has been priced
C18_Witness ==
  /\ CatPriced
  /\ out.calc[1].args.back_name \notin Cat_valid_back_names
  /\ PricedRows[1].set_name_num > 0

\* ---------------------------------------------------------------------
\* C19.  Completing Catalog_BOT's flow with the early usage date, the dry
\* T-shirt, the quantity 20, "front only", "front or back, 1 color" and
\* no back name gives position fee 0, color fee 0, unit price 1230 and
\* total price 24600.
\* ---------------------------------------------------------------------
C19_DryTshirtTwentyEarly ==
  prog = "Cat"
    => \A r \in runs :
         (/\ Len(r.inputs) = 7
          /\ r.inputs[1] = <<"14days_or_more">>
          /\ r.inputs[3] = <<"DryTshirt">>
          /\ r.inputs[4] = <<"2", "0">>
          /\ r.inputs[5] = <<"front_only">>
          /\ r.inputs[6] = <<"single_1c">>
          /\ r.inputs[7] = <<"no_back_name">>)
           => /\ RowsFor(r.answers) # <<>>
              /\ PositionFee(r.answers, RowsFor(r.answers)[1]) = 0
              /\ ColorFee(r.answers, RowsFor(r.answers)[1]) = 0
              /\ r.unit_price = 1230
              /\ r.total_price = 24600

\* that flow has been completed and its quote written with the total
C19_Witness ==
  /\ prog = "Cat" /\ Len(sheet) = 1
  /\ \E r \in runs : r.inputs[3] = <<"DryTshirt">> /\ r.inputs[4] = <<"2", "0">>
  /\ sheet[1][11] = <<"yen", "2", "4", ",", "6", "0", "0">>
  /\ sheet[1][12] = <<"yen", "1", ",", "2", "3", "0">>

\* the rows of the rate table for an item and a tier, in table order
RowsOf(item_name, discount_type) ==
  SelectSeq([i \in DOMAIN PRICE_TABLE |-> Row(PRICE_TABLE[i])],
            LAMBDA row : <<row.item>> = item_name /\ <<row.discount_type>> = discount_type)

\* ---------------------------------------------------------------------
\* C20.  In Catalog_BOT's rate table the quantity ranges of every (item,
\* tier) are contiguous and do not overlap: the first starts at 10, each
\* next one starts one above the end of the one before, the last ends at
\* 500.  So every quantity from 10 to 500 lies in exactly one row, and
\* that row is what find_price_row returns.
\* ---------------------------------------------------------------------
C20_RangesPartitionTenToFiveHundred ==
  (/\ prog = "Cat" /\ Called("find_price_row")
   /\ out.calc[1].args[1] \in Cat_items
   /\ out.calc[1].args[2] \in {<<"hayawari">>, <<"tsujo">>})
    => LET rows == RowsOf(out.calc[1].args[1], out.calc[1].args[2])
           quantity == out.calc[1].args[3]
           holding == {i \in DOMAIN rows :
                         rows[i].min_qty <= quantity /\ quantity <= rows[i].max_qty}
       IN  /\ rows # <<>>
           /\ rows[1].min_qty = 10
           /\ rows[Len(rows)].max_qty = 500
           /\ \A i \in DOMAIN rows : rows[i].min_qty <= rows[i].max_qty
           /\ \A i \in 1..(Len(rows) - 1) : rows[i + 1].min_qty = rows[i].max_qty + 1
           /\ (10 <= quantity /\ quantity <= 500)
                => /\ Cardinality(holding) = 1
                   /\ out.calc[1].result = <<rows[CHOOSE i \in holding : TRUE]>>

\* find_price_row has returned the last row of the regular tier for 500 pieces
C20_Witness ==
  /\ prog = "Cat" /\ Called("find_price_row")
  /\ out.calc[1].args[2] = <<"tsujo">>
  /\ out.calc[1].args[3] = 500
  /\ out.calc[1].result # <<>>
  /\ out.calc[1].result[1].min_qty = 100

\* the value of step once the last answer has been accepted
TerminalStep == IF prog = "Bro" THEN 6 ELSE 8

\* ---------------------------------------------------------------------
\* C21.  When the write to the sheet fails while a valid answer at the
\* last step is handled, the session is not rolled back: it stays in the
\* store with step at its terminal value (6 in Bro_shop_test, 8 in
\* Catalog_BOT) and with the last answers recorded, no row has been
\* appended and no result message has been emitted.
\* ---------------------------------------------------------------------
C21_FailedWriteLeavesAdvancedSession ==
  [][(/\ out'.step = LastStep /\ out'.text \in Choices(LastStep)
      /\ Did("raise")' /\ ~Did("append")')
       => /\ out'.user \in DOMAIN user_estimate_sessions'
          /\ user_estimate_sessions'[out'.user].step = TerminalStep
          /\ Field(LastStep) \in DOMAIN user_estimate_sessions'[out'.user].answers
          /\ user_estimate_sessions'[out'.user].answers[Field(LastStep)] = out'.text
          /\ user_estimate_sessions'[out'.user].answers = out'.calc[1].args
          /\ \A f \in DOMAIN user_estimate_sessions[out'.user].answers :
               user_estimate_sessions'[out'.user].answers[f]
                 = user_estimate_sessions[out'.user].answers[f]
          /\ sheet' = sheet
          /\ out'.replies = <<>>
    ]_vars

\* the write has failed and the session is left at its terminal step
C21_Witness ==
  /\ Did("raise") /\ ~Did("append") /\ Alive
  /\ out.step = LastStep
  /\ user_estimate_sessions[out.user].step = TerminalStep

\* ---------------------------------------------------------------------
\* C22.  Distinct completed quotes have distinct quote numbers, and the
\* quote numbers are strictly increasing in the order the quotes were
\* completed, across all users.
\* (The quote number is the clock in whole seconds: two quotes written in
\* the same second have the same number.)
\* ---------------------------------------------------------------------
C22_QuoteNumbersStrictlyIncrease ==
  \A i, j \in DOMAIN sheet : i < j => int(sheet[i][2]) < int(sheet[j][2])

\* ---------------------------------------------------------------------
\* C25.  Bro_shop_test: a message that reaches the validation of a step k
\* in 1..5 and is not in step k's choice set is answered, in the run that
\* removes the session, by exactly one reply, the generic restart
\* instruction ("input_error_start_over").
\* (At step 5 the run ends with no reply and the session is kept.)
\* ---------------------------------------------------------------------
C25_InvalidAnswerGetsRestartReply ==
  (prog = "Bro" /\ Routed /\ out.step \in 1..5 /\ out.text \notin BroChoices(out.step))
    => /\ ~Alive
       /\ Order({"del", "reply"}) = <<"del", "reply">>
       /\ out.replies = <<TextSendMessage("input_error_start_over")>>

\* ---------------------------------------------------------------------
\* C28.  The row write_estimate_to_spreadsheet appends has exactly one
\* value per header column of the sheet, in header order: each answer
\* stands under its own header, the total price under "gokei_kingaku"
\* and the unit price under "tanka".
\* (The row of Bro_shop_test has 13 values under 14 headers and no total
\* price: the unit price stands under "gokei_kingaku", the form URL under
\* "tanka".)
\* ---------------------------------------------------------------------
estimate_headers == IF prog = "Bro" THEN Bro_estimate_headers ELSE Cat_estimate_headers

Col(name) == CHOOSE i \in DOMAIN estimate_headers : estimate_headers[i] = name

Under(row, name) == IF Col(name) \in DOMAIN row THEN row[Col(name)] ELSE <<"no value">>

C28_RowMatchesHeader ==
  Did("append") =>
    LET row == sheet[Len(sheet)]
        a == out.calc[1].args
        price == out.calc[1].result
    IN  /\ Len(row) = Len(estimate_headers)
        /\ Under(row, "user_id") = <<out.user>>
        /\ Under(row, "shohinmei") = a["item"]
        /\ Under(row, "maisu") = a["quantity"]
        /\ Under(row, "print_ichi") = a["print_position"]
        /\ Under(row, "irosu") = a["color_count"]
        /\ Under(row, "se_name") = a["back_name"]
        /\ Under(row, "gokei_kingaku") = yen(price[1])
        /\ Under(row, "tanka") = yen(price[2])

\* ---------------------------------------------------------------------
\* One message to a session that waits at a step
\* ---------------------------------------------------------------------
\* the session store after user U1 has sent the start phrase and answered
\* the first n questions with their first buttons
RECURSIVE BroAfter(_)
BroAfter(n) ==
  IF n = 0 THEN Bro_handle_message(EmptyDict, <<>>, "U1", <<"kantan_mitsumori">>, "ok", 1).S
  ELSE Bro_handle_message(BroAfter(n - 1), <<>>, "U1", BroButton[n], "ok", 1).S

RECURSIVE CatAfter(_)
CatAfter(n) ==
  IF n = 0 THEN Cat_handle_message(EmptyDict, <<>>, "U1", <<"omitsumori">>, "ok", 1).S
  ELSE Cat_handle_message(CatAfter(n - 1), <<>>, "U1", CatButton[n], "ok", 1).S

\* a text with its Latin letters in the other case:
\*   "Dry_t_shirt" = ドライtシャツ, "Standard_w_HoodParka" = スタンダードwフードパーカー
OtherCase(text) ==
  [i \in DOMAIN text |->
     CASE text[i] = "A" -> "a" [] text[i] = "B" -> "b" [] text[i] = "C" -> "c"
       [] text[i] = "D" -> "d" [] text[i] = "E" -> "e" [] text[i] = "F" -> "f"
       [] text[i] = "DryTshirt" -> "Dry_t_shirt"
       [] text[i] = "StandardWHoodParka" -> "Standard_w_HoodParka"
       [] OTHER -> text[i]]

\* what a user may type for the choice c: the choice itself, the choice
\* with whitespace around it, a part of it, a text it is a part of, the
\* choice in another case, the choice with whitespace inside
Variants(c) ==
  {c, <<" ">> \o c, c \o <<" ">>, <<" ", " ">> \o c \o <<" ">>,
   c \o <<"abc">>, <<"abc">> \o c, SubSeq(c, 1, Len(c) - 1), Tail(c),
   OtherCase(c), <<Head(c), " ">> \o Tail(c)}

BroAnswerTexts ==
  UNION {Variants(c) : c \in UNION {BroChoices(k) : k \in 1..5}}
    \cup {<<"kantan_mitsumori">>, <<"otoiawase">>, <<"#yujin_chat">>, <<"Catalog">>}

CatAnswerTexts ==
  UNION {Variants(c) : c \in UNION {CatChoices(k) : k \in 1..7}}
    \cup {<<"omitsumori">>, <<"Catalog">>}

AnswerInit ==
  /\ prog \in {"Bro", "Cat"}
  /\ \E k \in 1..(IF prog = "Bro" THEN 5 ELSE 7) :
       /\ user_estimate_sessions = (IF prog = "Bro" THEN BroAfter(k - 1) ELSE CatAfter(k - 1))
       /\ accepted = put(EmptyDict, "U1",
                         SubSeq(IF prog = "Bro" THEN BroButton ELSE CatButton, 1, k - 1))
  /\ sheet = <<>>
  /\ out = NoOut
  /\ runs = {}
  /\ web_orders = <<>>
  /\ http = NoHttp
  /\ threads = <<>>
  /\ catalog = NoCatalog
  /\ quoted = put(EmptyDict, "U1", 0)

BroAnswer ==
  /\ prog = "Bro"
  /\ out = NoOut
  /\ \E text \in BroAnswerTexts :
       \E ext \in Outcomes(Bro_handle_message(user_estimate_sessions, sheet, "U1", text, "ok", 1)) :
         \E now \in (IF ext = "persist_fails" THEN {1} ELSE ClockReads(sheet)) :
           Deliver(Bro_handle_message(user_estimate_sessions, sheet, "U1", text, ext, now),
                   "U1", text)

CatAnswer ==
  /\ prog = "Cat"
  /\ out = NoOut
  /\ \E text \in CatAnswerTexts :
       \E ext \in Outcomes(Cat_handle_message(user_estimate_sessions, sheet, "U1", text, "ok", 1)) :
         \E now \in (IF ext = "persist_fails" THEN {1} ELSE ClockReads(sheet)) :
           Deliver(Cat_handle_message(user_estimate_sessions, sheet, "U1", text, ext, now),
                   "U1", text)

AnswerNext == BroAnswer \/ CatAnswer

AnswerSpec == AnswerInit /\ [][AnswerNext]_vars

\* ---------------------------------------------------------------------
\* C24.  A message to a session at step k is accepted (its text recorded
\* as step k's answer) if and only if the text as sent, with the
\* whitespace around it removed, is a member of step k's choice set; a
\* part of a choice, a text a choice is part of, a choice in another case
\* and a choice with whitespace inside are not accepted.
\* ---------------------------------------------------------------------
C24_AcceptedIffExactChoice ==
  (out.user # "" /\ out.step \in 1..LastStep)
    => /\ Did("answer") <=> strip(out.raw) \in Choices(out.step)
       /\ Did("answer") => /\ out.calc # <<>> \/ user_estimate_sessions[out.user].step = out.step + 1
                           /\ (IF out.calc # <<>> THEN out.calc[1].args
                               ELSE user_estimate_sessions[out.user].answers)[Field(out.step)]
                                = strip(out.raw)
       /\ \A c \in Choices(out.step) :
            out.raw \in Variants(c) \ {c, <<" ">> \o c, c \o <<" ">>, <<" ", " ">> \o c \o <<" ">>}
              => ~Did("answer") \/ out.raw \in Choices(out.step)

\* a choice sent with whitespace around it has been accepted
C24_Witness ==
  /\ out.step = 3
  /\ out.raw # out.text
  /\ out.text \in Choices(3)
  /\ Did("answer")
  /\ user_estimate_sessions[out.user].answers["item"] = out.text

\* ---------------------------------------------------------------------
\* C27.  calculate_web_order_estimate, on a form whose (item, discount
\* tier, quantity) match a rate row, returns a position fee of the row's
\* pos_add times the number of declared print positions beyond the first
\* (pos_add x max(0, count - 1)) and a unit price that is the sum of the
\* base price and the position, color and name/number components.
\* (The function reads the name PRICE_TABLE, which the module does not
\* bind: it raises on every form and returns no fee.)
\* ---------------------------------------------------------------------
DeclaredPositions(data) ==
  Cardinality({i \in 1..4 : get(data, PositionKeys[i], <<>>) # <<>>})

WebOrderRows ==
  MatchingRows(out.calc[1].args.productName,
               IF out.calc[1].args.discountOption = <<"hayawari">>
               THEN <<"hayawari">> ELSE <<"tsujo">>,
               int(out.calc[1].args.totalQuantity))

C27_WebOrderPositionFee ==
  (Called("calculate_web_order_estimate") /\ WebOrderRows # <<>>)
    => /\ ~Did("raise")
       /\ LET n == DeclaredPositions(out.calc[1].args)
              r == out.calc[1].result
          IN  /\ r.pos_add_fee = WebOrderRows[1].pos_add * (IF n > 1 THEN n - 1 ELSE 0)
              /\ r.unit_price = r.base_unit + r.pos_add_fee + r.color_fee + r.back_name_fee

\* ---------------------------------------------------------------------
\* Bro_shop_test.py: the web order form
\* ---------------------------------------------------------------------
\* the columns of the WebOrderRequests sheet the model keeps, of the 106
\* of the code, in the order of the code
WEB_ORDER_COLUMN_KEYS == <<
  "timestamp", "productName", "colorName", "sizeM", "totalQuantity",
  "printPositionNo1", "printPositionNo2",
  "deliveryDate", "discountOption", "schoolName",
  "zipCode", "address2", "addresseeName",
  "representativeName", "representativeTel",
  "designCheckMethod", "paymentMethod",
  "orderNo", "quote_no", "unitPrice", "totalPrice" >>

\* the header of each kept column
\*   "chumon_bango" = 注文番号, "gokei_maisu" = 合計枚数, and so on
WEB_ORDER_HEADERS == <<
  "nichiji", "shohinmei", "shohin_color", "M_size_maisu", "gokei_maisu",
  "print_ichi_No1", "print_ichi_No2",
  "kibo_otodokebi", "riyo_gakuwari_tokuten", "gakkomei",
  "yubin_bango", "jusho2", "otodokesaki_atena",
  "daihyosha", "daihyosha_TEL",
  "design_kakunin_hoho", "oshiharai_hoho",
  "chumon_bango", "mitsumori_bango", "tanka", "gokei_kingaku" >>

IndexOf(seq, x) == CHOOSE i \in DOMAIN seq : seq[i] = x /\ \A j \in 1..(i - 1) : seq[j] # x

build_web_order_row_values(data) ==
  [i \in DOMAIN WEB_ORDER_COLUMN_KEYS |-> get(data, WEB_ORDER_COLUMN_KEYS[i], <<>>)]

\* returns the WebOrderRequests rows with the row of data appended
write_to_spreadsheet_for_web_order(W, data) == Append(W, build_web_order_row_values(data))

required_fields == <<
  "productName", "colorName", "sizeM", "deliveryDate",
  "schoolName", "representativeName", "representativeTel",
  "zipCode", "address2", "addresseeName", "discountOption",
  "designCheckMethod", "paymentMethod" >>

\* what a run of a web route did: the WebOrderRequests rows, the response,
\* the messages pushed, the trace of its effects, the pricing call
WebRes(W, status, text, initial_data, replies, trace, calc) ==
  [W |-> W, status |-> status, text |-> text, initial_data |-> initial_data,
   replies |-> replies, trace |-> trace, calc |-> calc]

\* the push of build_order_confirm_flex(order_no, make_order_summary(...))
order_confirm_flex(order_no, est) ==
  [kind |-> "order_confirm",
   fields |-> [order_no |-> order_no, unit_price |-> yen(est.unit_price),
               total_price |-> yen(est.total_price)]]

\* the steps of submit_web_order_form after the validation
\*   "saved" = 保存が完了しました。  "order_accepted" = 注文を受け付けました！
Bro_price_and_save(W, form_data, submit_mode, order_no, before) ==
  LET est == Bro_calculate_web_order_estimate(form_data)
      called == before \o <<"call:calculate_web_order_estimate">>
  IN  IF "raise" \in DOMAIN est
      THEN WebRes(W, 500, <<est.raise>>, EmptyDict, <<>>, called \o <<"raise">>,
                  <<[args |-> form_data, result |-> est]>>)
      ELSE
        LET priced == put(put(form_data, "unitPrice", str(est.unit_price)),
                          "totalPrice", str(est.total_price))
            uid == get(priced, "lineUserId", <<>>)
            pushed == submit_mode = <<"final">> /\ uid # <<>>
        IN  WebRes(write_to_spreadsheet_for_web_order(W, priced), 200,
                   IF submit_mode = <<"draft">> THEN <<"saved">> ELSE <<"order_accepted">>,
                   EmptyDict,
                   IF pushed THEN <<order_confirm_flex(order_no, est)>> ELSE <<>>,
                   called \o <<"append">> \o (IF pushed THEN <<"push">> ELSE <<>>),
                   <<[args |-> form_data, result |-> est]>>)

\* submit_web_order_form pricing and saving before it validates
Bro_submit_web_order_form_saving_first(W, form, now) ==
  LET stripped == [k \in DOMAIN form |-> strip(form[k])]
      submit_mode == get(form, "submit_mode", <<"final">>)
      order_no == IF get(stripped, "orderNo", <<>>) = <<>>
                  THEN <<"YmdHMS">> \o str(now) ELSE stripped["orderNo"]
      form_data == put(put(put(stripped, "orderNo", order_no), "timestamp", strftime(now)),
                       "submit_mode", submit_mode)
      missing == {i \in DOMAIN required_fields : get(form_data, required_fields[i], <<>>) = <<>>}
      r == Bro_price_and_save(W, form_data, submit_mode, order_no, <<>>)
  IN  IF r.status = 200 /\ submit_mode = <<"final">> /\ missing # {}
      THEN WebRes(r.W, 400,
                  <<"missing_required_field:",
                    required_fields[CHOOSE i \in missing : \A j \in missing : i <= j]>>,
                  EmptyDict, r.replies, r.trace \o <<"validate">>, r.calc)
      ELSE r

\*   "missing_required_field:" = 必須項目が未入力です：
Bro_submit_web_order_form(W, form, now) ==
  LET stripped == [k \in DOMAIN form |-> strip(form[k])]
      submit_mode == get(form, "submit_mode", <<"final">>)
      order_no == IF get(stripped, "orderNo", <<>>) = <<>>
                  THEN <<"YmdHMS">> \o str(now) ELSE stripped["orderNo"]
      form_data == put(put(put(stripped, "orderNo", order_no), "timestamp", strftime(now)),
                       "submit_mode", submit_mode)
      missing == {i \in DOMAIN required_fields : get(form_data, required_fields[i], <<>>) = <<>>}
  IN  IF submit_mode = <<"final">> /\ missing # {}
      THEN WebRes(W, 400,
                  <<"missing_required_field:",
                    required_fields[CHOOSE i \in missing : \A j \in missing : i <= j]>>,
                  EmptyDict, <<>>, <<"validate">>, <<>>)
      ELSE Bro_price_and_save(W, form_data, submit_mode, order_no,
                              IF submit_mode = <<"final">> THEN <<"validate">> ELSE <<>>)

\* worksheet.col_values(n) and worksheet.row_values(n) of a sheet with the
\* given header row: the header is row 1, a missing cell reads as empty,
\* row_values leaves out the empty cells at the end of the row
HeaderRow(headers) == [i \in DOMAIN headers |-> <<headers[i]>>]

RECURSIVE trimmed(_)
trimmed(row) ==
  IF row # <<>> /\ row[Len(row)] = <<>> THEN trimmed(SubSeq(row, 1, Len(row) - 1)) ELSE row

row_values(headers, rows, idx) == trimmed((<<HeaderRow(headers)>> \o rows)[idx])

col_values(headers, rows, n) ==
  trimmed([idx \in 1..(Len(rows) + 1) |->
             LET row == (<<HeaderRow(headers)>> \o rows)[idx]
             IN  IF n \in DOMAIN row THEN row[n] ELSE <<>>])

\* dict(zip(keys, row))
zip(keys, row) ==
  [k \in {keys[i] : i \in DOMAIN keys \cap DOMAIN row} |-> row[IndexOf(keys, k)]]

\* show_web_order_form: args holds the query parameters that were sent; a
\* parameter that was not sent reads as None
None == <<"None">>

Bro_show_web_order_form(W, L, args) ==
  LET quote_no == get(args, "quote_no", None)
      quote_col == col_values(WEB_ORDER_HEADERS, W, IndexOf(WEB_ORDER_COLUMN_KEYS, "quote_no"))
      from_order ==
        IF \E i \in DOMAIN quote_col : quote_col[i] = quote_no
        THEN zip(WEB_ORDER_COLUMN_KEYS,
                 row_values(WEB_ORDER_HEADERS, W, IndexOf(quote_col, quote_no)))
        ELSE EmptyDict
      estimate_col == col_values(Bro_estimate_headers, L, 1)
      from_estimate ==
        IF \E i \in DOMAIN estimate_col : estimate_col[i] = quote_no
        THEN LET row == row_values(Bro_estimate_headers, L, IndexOf(estimate_col, quote_no))
             IN  IF Len(row) < 11 THEN EmptyDict
                 ELSE [productName |-> row[7], quantity |-> row[8],
                       print_position |-> row[9], color_count |-> row[10],
                       back_name |-> row[11]]
        ELSE EmptyDict
      initial_data ==
        IF from_order = EmptyDict /\ quote_no \notin {None, <<>>} THEN from_estimate
        ELSE from_order
  IN  WebRes(W, 200, <<"web_order_form.html">>, initial_data, <<>>, <<"render">>, <<>>)

\* ---------------------------------------------------------------------
\* The web order form beside the chat of one user
\* ---------------------------------------------------------------------
\* a form with every required field filled in
\*   "white" = ホワイト, "card" = クレジットカード, "line" = LINE
FullForm ==
  [productName |-> <<"DryTshirt">>, colorName |-> <<"white">>, sizeM |-> <<"2", "0">>,
   totalQuantity |-> <<"2", "0">>, printPositionNo1 |-> <<"mae">>,
   deliveryDate |-> <<"2025-07-01">>, schoolName |-> <<"abc">>,
   representativeName |-> <<"abc">>, representativeTel |-> <<"0", "9", "0">>,
   zipCode |-> <<"1", "0", "0">>, address2 |-> <<"abc">>, addresseeName |-> <<"abc">>,
   discountOption |-> <<"hayawari">>, designCheckMethod |-> <<"line">>,
   paymentMethod |-> <<"card">>, quote_no |-> <<"1">>, lineUserId |-> <<"U1">>]

\* the fields a user leaves empty, or fills with whitespace only
Blanks ==
  {EmptyDict,
   [productName |-> <<>>],
   [colorName |-> <<>>],
   [colorName |-> <<" ">>, paymentMethod |-> <<>>],
   [paymentMethod |-> <<>>],
   [deliveryDate |-> <<>>, discountOption |-> <<>>, paymentMethod |-> <<>>]}

Overlay(d, e) == [k \in DOMAIN d \cup DOMAIN e |-> IF k \in DOMAIN e THEN e[k] ELSE d[k]]

WebForms ==
  {Overlay(Overlay(Overlay(FullForm, blank), mode), order) :
     blank \in Blanks,
     mode \in {EmptyDict, [submit_mode |-> <<"draft">>], [submit_mode |-> <<"final">>]},
     order \in {EmptyDict, [orderNo |-> <<"o1">>]}}
    \cup {Overlay(FullForm, [lineUserId |-> <<>>])}

\* the query parameters of a request for the form: the quote number of a
\* row of the quote sheet, a number of no quote, or none
WebArgs(L) ==
  {EmptyDict, [quote_no |-> <<"9">>]}
    \cup {[quote_no |-> L[i][2], uid |-> L[i][3]] : i \in DOMAIN L}

\* one run of a web route, handled to its end
Serve(route, request, r) ==
  /\ Len(r.W) <= MaxRows
  /\ web_orders' = r.W
  /\ http' = [route |-> route, request |-> request, status |-> r.status, text |-> r.text,
              initial_data |-> r.initial_data]
  /\ out' = [NoOut EXCEPT !.replies = r.replies, !.trace = r.trace, !.calc = r.calc]
  /\ UNCHANGED <<prog, user_estimate_sessions, sheet, accepted, runs, threads, catalog, quoted>>

\* user U1 takes a quote in the chat
WebQuote ==
  /\ prog = "Bro"
  /\ \E text \in {<<"kantan_mitsumori">>}
                   \cup {BroButton[k] : k \in {k \in 1..5 :
                           /\ "U1" \in DOMAIN user_estimate_sessions
                           /\ user_estimate_sessions["U1"].step = k}} :
       \E now \in ClockReads(sheet) :
         Deliver(Bro_handle_message(user_estimate_sessions, sheet, "U1", text, "ok", now),
                 "U1", text)

ShowWebOrderForm ==
  /\ prog = "Bro"
  /\ \E args \in WebArgs(sheet) :
       Serve("web_order_form", args, Bro_show_web_order_form(web_orders, sheet, args))

SubmitWebOrderForm ==
  /\ prog = "Bro"
  /\ \E form \in WebForms : \E now \in ClockReads(sheet) :
       Serve("submit_web_order_form", form, Bro_submit_web_order_form(web_orders, form, now))

WebNext == WebQuote \/ ShowWebOrderForm \/ SubmitWebOrderForm

WebSpec == Init /\ [][WebNext]_vars

\* the last run was a submission of the order form
Submitted == http.route = "submit_web_order_form" /\ out.user = "" /\ out.trace # <<>>

\* the submit mode of the last request, "final" when none was sent
SubmitMode == get(http.request, "submit_mode", <<"final">>)

\* the required fields the last request left empty, by their place in the list
Missing ==
  {i \in DOMAIN required_fields : strip(get(http.request, required_fields[i], <<>>)) = <<>>}

\* ---------------------------------------------------------------------
\* C23.  A submission of the order form with submit_mode "final" that
\* leaves a required field empty is answered with status 400 and a text
\* naming the first missing field of the list; the run prices nothing,
\* appends no row to WebOrderRequests and pushes no message.  In a final
\* submission the validation comes before the append.
\* ---------------------------------------------------------------------
C23_MissingFieldRejectedBeforeSaving ==
  [][(Submitted' /\ SubmitMode' = <<"final">>)
       => /\ Missing' # {}
            => /\ http'.status = 400
               /\ http'.text = <<"missing_required_field:",
                                 required_fields[CHOOSE i \in Missing' : \A j \in Missing' : i <= j]>>
               /\ web_orders' = web_orders
               /\ out'.replies = <<>>
               /\ out'.trace = <<"validate">>
          /\ Order({"validate", "append", "push"})'
               \in {<<"validate">>, <<"validate", "append">>, <<"validate", "append", "push">>}]_vars

\* a final submission with two required fields missing, one of them filled
\* with whitespace, has been refused
C23_Witness ==
  /\ Submitted
  /\ SubmitMode = <<"final">>
  /\ http.request["productName"] # <<>>
  /\ http.request["colorName"] = <<" ">>
  /\ http.request["paymentMethod"] = <<>>
  /\ http.status = 400
  /\ http.text = <<"missing_required_field:", "colorName">>
  /\ web_orders = <<>>

\* the last run was a request for the order form
Shown == http.route = "web_order_form" /\ out.user = "" /\ out.trace = <<"render">>

\* ---------------------------------------------------------------------
\* C29.  Bro_shop_test: when the order form is opened with quote_no = q,
\* q being the quote number of a row the chat flow appended to the quote
\* sheet, and WebOrderRequests holds no row for q, the form is pre-filled
\* from that row: its item, quantity, print position, color count and
\* back name.
\* (The fallback looks q up in column 1 of the quote sheet, the time
\* stamp, not in column 2, the quote number: the form stays empty.)
\* ---------------------------------------------------------------------
C29_FormPrefilledFromQuote ==
  (/\ Shown
   /\ "quote_no" \in DOMAIN http.request
   /\ \E i \in DOMAIN sheet : sheet[i][2] = http.request["quote_no"]
   /\ \A j \in DOMAIN web_orders :
        web_orders[j][IndexOf(WEB_ORDER_COLUMN_KEYS, "quote_no")] # http.request["quote_no"])
    => \E i \in DOMAIN sheet :
         /\ sheet[i][2] = http.request["quote_no"]
         /\ http.initial_data = [productName |-> sheet[i][7], quantity |-> sheet[i][8],
                                 print_position |-> sheet[i][9], color_count |-> sheet[i][10],
                                 back_name |-> sheet[i][11]]

\* the value of column key in a row of WebOrderRequests
Cell(row, key) == row[IndexOf(WEB_ORDER_COLUMN_KEYS, key)]

\* the row carries what the last request submitted
Carries(row) ==
  \A k \in DOMAIN http.request :
    (\E i \in DOMAIN WEB_ORDER_COLUMN_KEYS : WEB_ORDER_COLUMN_KEYS[i] = k)
      => Cell(row, k) = strip(http.request[k])

\* ---------------------------------------------------------------------
\* C30.  Saving a web order is "new or overwrite": WebOrderRequests never
\* holds two rows with one order number, and after a submission that the
\* validation lets through (a draft, or a final one with every required
\* field) the one row of its order number carries what was submitted.
\* (Every such submission raises in calculate_web_order_estimate before
\* the save; and the save is append_row, which replaces nothing.)
\* ---------------------------------------------------------------------
C30_SavedNewOrOverwritten ==
  /\ \A i, j \in DOMAIN web_orders :
       i # j => Cell(web_orders[i], "orderNo") # Cell(web_orders[j], "orderNo")
  /\ (Submitted /\ http.status # 400)
       => \E i \in DOMAIN web_orders :
            /\ Carries(web_orders[i])
            /\ \A j \in DOMAIN web_orders :
                 j # i => Cell(web_orders[j], "orderNo") # Cell(web_orders[i], "orderNo")

\* ---------------------------------------------------------------------
\* Two handler runs for one user, statement by statement
\* ---------------------------------------------------------------------
\* The web server runs each webhook delivery in a thread of its own and the
\* module takes no lock: the runs of handle_message for two messages of
\* user U1 interleave between their statements.  threads.obj is the one
\* session dict both runs may hold a reference to (it outlives its key in
\* user_estimate_sessions); threads.run[t] is the position and the local
\* variables of run t.
Tids == {"T1", "T2"}

Idle ==
  [pc |-> "idle", text |-> <<>>, step |-> 0, accepted |-> FALSE, todo |-> <<>>,
   wrote |-> FALSE, replied |-> FALSE]

RaceTexts ==
  {<<"abc">>} \cup (IF prog = "Bro" THEN {BroButton[k] : k \in 1..5}
                                    ELSE {CatButton[k] : k \in 1..7})

RaceInit ==
  /\ prog \in {"Bro", "Cat"}
  /\ \E k \in 1..(IF prog = "Bro" THEN 5 ELSE 7) :
       /\ user_estimate_sessions = (IF prog = "Bro" THEN BroAfter(k - 1) ELSE CatAfter(k - 1))
       /\ threads = [obj |-> user_estimate_sessions["U1"], run |-> [t \in Tids |-> Idle]]
  /\ sheet = <<>>
  /\ out = NoOut
  /\ accepted = EmptyDict
  /\ runs = {}
  /\ web_orders = <<>>
  /\ http = NoHttp
  /\ catalog = NoCatalog
  /\ quoted = EmptyDict

\* run t goes on as me, the session dict being obj afterwards
Goes(t, me, obj) ==
  /\ threads' = [obj |-> obj, run |-> [threads.run EXCEPT ![t] = me]]
  /\ UNCHANGED <<prog, out, accepted, runs, web_orders, http, catalog, quoted>>

\* the next statement with an effect outside run t
Todo(t, e) ==
  /\ threads.run[t].pc = "run"
  /\ threads.run[t].todo # <<>>
  /\ Head(threads.run[t].todo) = e

\* the run after that statement
After(me) ==
  [me EXCEPT !.todo = Tail(@), !.pc = IF Len(me.todo) = 1 THEN "done" ELSE "run"]

\* a webhook delivery of a message of U1 starts a run
Receive(t) ==
  /\ threads.run[t].pc = "idle"
  /\ \E text \in RaceTexts :
       Goes(t, [threads.run[t] EXCEPT !.pc = "route", !.text = text], threads.obj)
  /\ UNCHANGED <<user_estimate_sessions, sheet>>

\* handle_message: the test of the session
Route(t) ==
  /\ threads.run[t].pc = "route"
  /\ Goes(t, [threads.run[t] EXCEPT
                !.pc = IF "U1" \in DOMAIN user_estimate_sessions
                          /\ user_estimate_sessions["U1"].step > 0
                       THEN "read" ELSE "done"],
          threads.obj)
  /\ UNCHANGED <<user_estimate_sessions, sheet>>

\* process_estimate_flow: session_data = user_estimate_sessions[user_id],
\* step = session_data["step"]
Read(t) ==
  /\ threads.run[t].pc = "read"
  /\ Goes(t, IF "U1" \in DOMAIN user_estimate_sessions
             THEN [threads.run[t] EXCEPT !.pc = "check", !.step = threads.obj.step]
             ELSE [threads.run[t] EXCEPT !.pc = IF prog = "Bro" THEN "done" ELSE "KeyError"],
          threads.obj)
  /\ UNCHANGED <<user_estimate_sessions, sheet>>

\* Check that tests the text against the step the session dict holds now
CheckAgainstCurrentStep(t) ==
  /\ threads.run[t].pc = "check"
  /\ \E view \in {put(EmptyDict, "U1", threads.obj)} :
     \E m \in {strip(threads.run[t].text)} :
     \E r \in {IF prog = "Bro"
               THEN Bro_process_estimate_flow(view, sheet, "U1", m, "ok", 1)
               ELSE Cat_process_estimate_flow(view, sheet, "U1", m, "ok", 1)} :
     \E s \in {IF prog = "Bro"
               THEN Bro_process_estimate_flow(view, sheet, "U1", m, "persist_fails", 1)
               ELSE Cat_process_estimate_flow(view, sheet, "U1", m, "persist_fails", 1)} :
       LET ok == \E i \in DOMAIN r.trace : r.trace[i] = "answer"
           obj == IF ok THEN s.S["U1"] ELSE threads.obj
           todo == SelectSeq(r.trace, LAMBDA e : e \in {"append", "reply", "del"})
       IN  /\ Goes(t, [threads.run[t] EXCEPT !.accepted = ok, !.todo = todo,
                         !.pc = IF todo = <<>> THEN "done" ELSE "run"], obj)
           /\ user_estimate_sessions' =
                IF "U1" \in DOMAIN user_estimate_sessions
                THEN put(user_estimate_sessions, "U1", obj) ELSE user_estimate_sessions
  /\ UNCHANGED sheet

\* the test of the text against the choices of the step that was read, and
\* for a text that passes, the writes of the answer and of the next step
\* into the session dict.  view is the session dict as it is now, entered
\* at the branch of the step that was read; r is the branch with its
\* effects in order, s the branch up to its first external call.
Check(t) ==
  /\ threads.run[t].pc = "check"
  /\ \E view \in {put(EmptyDict, "U1", [threads.obj EXCEPT !.step = threads.run[t].step])} :
     \E m \in {strip(threads.run[t].text)} :
     \E r \in {IF prog = "Bro"
               THEN Bro_process_estimate_flow(view, sheet, "U1", m, "ok", 1)
               ELSE Cat_process_estimate_flow(view, sheet, "U1", m, "ok", 1)} :
     \E s \in {IF prog = "Bro"
               THEN Bro_process_estimate_flow(view, sheet, "U1", m, "persist_fails", 1)
               ELSE Cat_process_estimate_flow(view, sheet, "U1", m, "persist_fails", 1)} :
       LET ok == \E i \in DOMAIN r.trace : r.trace[i] = "answer"
           obj == IF ok THEN s.S["U1"] ELSE threads.obj
           todo == SelectSeq(r.trace, LAMBDA e : e \in {"append", "reply", "del"})
       IN  /\ Goes(t, [threads.run[t] EXCEPT !.accepted = ok, !.todo = todo,
                         !.pc = IF todo = <<>> THEN "done" ELSE "run"], obj)
           /\ user_estimate_sessions' =
                IF "U1" \in DOMAIN user_estimate_sessions
                THEN put(user_estimate_sessions, "U1", obj) ELSE user_estimate_sessions
  /\ UNCHANGED sheet

\* calculate_estimate and write_estimate_to_spreadsheet on
\* est_data = session_data["answers"]
Write(t) ==
  /\ Todo(t, "append")
  /\ Len(sheet) < MaxRows
  /\ \E now \in ClockReads(sheet) :
       LET est_data == threads.obj.answers
       IN  sheet' =
             IF prog = "Bro"
             THEN Bro_write_estimate_to_spreadsheet(sheet, "U1", est_data,
                    Bro_calculate_estimate(est_data)[1], Bro_calculate_estimate(est_data)[2],
                    now).L
             ELSE Cat_write_estimate_to_spreadsheet(sheet, "U1", est_data,
                    Cat_calculate_estimate(est_data)[1], Cat_calculate_estimate(est_data)[2],
                    now).L
  /\ Goes(t, [After(threads.run[t]) EXCEPT !.wrote = TRUE], threads.obj)
  /\ UNCHANGED user_estimate_sessions

\* line_bot_api.reply_message
Reply(t) ==
  /\ Todo(t, "reply")
  /\ Goes(t, [After(threads.run[t]) EXCEPT !.replied = TRUE], threads.obj)
  /\ UNCHANGED <<user_estimate_sessions, sheet>>

\* del user_estimate_sessions[user_id]; only the last branch of
\* Catalog_BOT tests the key first
Del(t) ==
  /\ Todo(t, "del")
  /\ IF "U1" \in DOMAIN user_estimate_sessions
     THEN /\ user_estimate_sessions' = del(user_estimate_sessions, "U1")
          /\ Goes(t, After(threads.run[t]), threads.obj)
     ELSE /\ UNCHANGED user_estimate_sessions
          /\ Goes(t, IF prog = "Cat" /\ ~threads.run[t].accepted
                     THEN After(threads.run[t])
                     ELSE [threads.run[t] EXCEPT !.pc = "KeyError"],
                  threads.obj)
  /\ UNCHANGED sheet

RaceNext ==
  \E t \in Tids :
    Receive(t) \/ Route(t) \/ Read(t) \/ Check(t) \/ Write(t) \/ Reply(t) \/ Del(t)

RaceSpec == RaceInit /\ [][RaceNext]_vars

\* run t has tested its text
Checked(t) == threads.run[t].step > 0 /\ threads.run[t].pc \in {"run", "done", "KeyError"}

\* run t has read the final step, sent one of its choices and come to its end
FinalRunEnded(t) ==
  /\ threads.run[t].step = LastStep
  /\ threads.run[t].accepted
  /\ threads.run[t].pc \in {"done", "KeyError"}

\* ---------------------------------------------------------------------
\* C26.  With no lock per user, two handler runs for messages of one user
\* interleave.  Each run tests its text against the step it read, whatever
\* step the session dict holds by then; a run that read the final step
\* and sent one of its choices appends a quote row; and when both runs
\* did so, the sheet holds two rows for the one session and the second
\* `del` finds the session already removed (KeyError).
\* ---------------------------------------------------------------------
C26_StaleStepIsValidatedAndPriced ==
  /\ \A t \in Tids :
       /\ Checked(t)
            => (threads.run[t].accepted
                  <=> strip(threads.run[t].text) \in Choices(threads.run[t].step))
       /\ FinalRunEnded(t) => threads.run[t].wrote
  /\ (\A t \in Tids : FinalRunEnded(t))
       => /\ Len(sheet) = 2
          /\ \A i \in DOMAIN sheet : sheet[i][3] = <<"U1">>
          /\ "U1" \notin DOMAIN user_estimate_sessions
          /\ Cardinality({t \in Tids : threads.run[t].pc = "KeyError"}) = 1

\* both runs read the final step of the one session, both appended a row,
\* and the second del raised
C26_Witness ==
  /\ \A t \in Tids : threads.run[t].step = LastStep /\ threads.run[t].accepted
                       /\ threads.run[t].wrote
  /\ Len(sheet) = 2
  /\ threads.run["T1"].pc = "done"
  /\ threads.run["T2"].pc = "KeyError"
  /\ "U1" \notin DOMAIN user_estimate_sessions

\* ---------------------------------------------------------------------
\* The order form opened on a WebOrderRequests sheet that holds drafts
\* ---------------------------------------------------------------------
\* The worksheet is kept by the spreadsheet service and outlives the
\* process: the rows it holds when a request arrives are the rows earlier
\* saves appended, oldest first.
\*   "Polo" = ポロシャツ, "Parka" = パーカー
DraftData ==
  {Overlay(FullForm, [quote_no |-> <<q>>, productName |-> <<p>>, orderNo |-> <<"o1">>,
                      timestamp |-> strftime(1), unitPrice |-> <<"1", "0">>,
                      totalPrice |-> <<"2", "0", "0">>]) :
     q \in {"1", "2"}, p \in {"DryTshirt", "Polo", "Parka"}}

\* the sheets that up to n saves leave
RECURSIVE Saves(_)
Saves(n) ==
  IF n = 0 THEN {<<>>}
  ELSE Saves(n - 1)
         \cup {write_to_spreadsheet_for_web_order(W, d) : W \in Saves(n - 1), d \in DraftData}

DraftInit ==
  /\ prog = "Bro"
  /\ user_estimate_sessions = EmptyDict
  /\ sheet = <<>>
  /\ out = NoOut
  /\ accepted = EmptyDict
  /\ runs = {}
  /\ web_orders \in Saves(MaxRows)
  /\ http = NoHttp
  /\ threads = <<>>
  /\ catalog = NoCatalog
  /\ quoted = EmptyDict

\* the query parameters of a request for the form: the quote number of a
\* saved row, a number of no row, or none
DraftArgs(W) ==
  {EmptyDict, [quote_no |-> <<"9">>]}
    \cup {[quote_no |-> Cell(W[i], "quote_no")] : i \in DOMAIN W}

ShowDraft ==
  /\ http = NoHttp
  /\ \E args \in DraftArgs(web_orders) :
       Serve("web_order_form", args, Bro_show_web_order_form(web_orders, sheet, args))

DraftNext == ShowDraft

DraftSpec == DraftInit /\ [][DraftNext]_vars

\* the rows of WebOrderRequests that carry the quote number of the last request
RowsOfQuote ==
  {i \in DOMAIN web_orders :
     /\ "quote_no" \in DOMAIN http.request
     /\ Cell(web_orders[i], "quote_no") = http.request["quote_no"]}

\* ---------------------------------------------------------------------
\* C31.  Bro_shop_test: when the order form is opened with a quote number
\* that one or more rows of WebOrderRequests carry, it is pre-filled from
\* the row saved last among them (the latest draft).
\* (quote_col.index(quote_no) is the position of the first such row, the
\* oldest save.)
\* ---------------------------------------------------------------------
C31_FormPrefilledFromLatestDraft ==
  (Shown /\ RowsOfQuote # {})
    => LET last == CHOOSE i \in RowsOfQuote : \A j \in RowsOfQuote : j <= i
       IN  http.initial_data = zip(WEB_ORDER_COLUMN_KEYS, trimmed(web_orders[last]))

\* ---------------------------------------------------------------------
\* Bro_shop_test.py: the catalog request form
\* ---------------------------------------------------------------------
\* str(uuid.uuid4()): the n-th draw, different from every earlier one
uuid4(n) == <<"uuid">> \o str(n)

\* what a run of a catalog route did: the CatalogRequests rows, the
\* request's session afterwards and whether the run wrote to it (flask
\* then sends the session back as the cookie), the response, the token in
\* the page, the trace of its effects
CatalogRes(R, session, modified, status, text, token, trace) ==
  [R |-> R, session |-> session, modified |-> modified, status |-> status, text |-> text,
   token |-> token, trace |-> trace]

show_catalog_form(R, session, n) ==
  LET token == uuid4(n)
  IN  CatalogRes(R, put(session, "catalog_form_token", token), TRUE, 200,
                 <<"catalog_form.html">>, token, <<"render">>)

\* returns the CatalogRequests rows with the row of form_data appended
write_to_spreadsheet_for_catalog(R, form_data, now) ==
  LET full_address == strip(get(form_data, "address_1", <<>>) \o <<" ">>
                              \o get(form_data, "address_2", <<>>))
  IN  Append(R, <<strftime(now), get(form_data, "name", <<>>),
                  get(form_data, "postal_code", <<>>), full_address,
                  get(form_data, "phone", <<>>), get(form_data, "email", <<>>),
                  get(form_data, "sns_account", <<>>), get(form_data, "school_grade", <<>>),
                  get(form_data, "other", <<>>)>>)

catalog_fields ==
  <<"name", "postal_code", "address_1", "address_2", "phone", "email", "sns_account",
    "school_grade", "other">>

\*   "double_or_invalid" = 二重送信、あるいは不正なリクエストです。
\*   "error:" = エラーが発生しました:   "thanks" = フォーム送信ありがとうございました！ ...
submit_catalog_form(R, session, form, ext, now) ==
  LET form_token == get(form, "form_token", None)
      popped == del(session, "catalog_form_token")
      form_data == [k \in {catalog_fields[i] : i \in DOMAIN catalog_fields} |->
                      strip(get(form, k, <<>>))]
  IN  IF form_token # get(session, "catalog_form_token", None)
      THEN CatalogRes(R, session, FALSE, 400, <<"double_or_invalid">>, None, <<>>)
      ELSE IF ext = "persist_fails"
      THEN CatalogRes(R, popped, popped # session, 500, <<"error:">>, None,
                      <<"pop", "raise">>)
      ELSE CatalogRes(write_to_spreadsheet_for_catalog(R, form_data, now), popped,
                      popped # session, 200, <<"thanks">>, None, <<"pop", "append">>)

\* ---------------------------------------------------------------------
\* One browser and the catalog form
\* ---------------------------------------------------------------------
\* The session object of a request is what the request's cookie holds
\* (app.secret_key signs it); what a run writes to it reaches the browser
\* with the response.  A browser sends a request with the cookie it holds
\* at that moment, whether or not an earlier request has been answered.

\* requests the browser sends before the model stops
MaxRequests == 3

\* a filled-in form, without its hidden field
\*   "Tokyo" = 東京都, "abc" = any text
CatalogForm ==
  [name |-> <<"abc">>, postal_code |-> <<"1", "0", "0">>, address_1 |-> <<"Tokyo">>,
   address_2 |-> <<" ", "abc">>, phone |-> <<"0", "9", "0">>, email |-> <<"abc">>,
   sns_account |-> <<"abc">>, school_grade |-> <<>>, other |-> <<>>]

\* the pages the browser has received: each can be submitted, and
\* submitted again (back button, second click)
Pages == {i \in DOMAIN catalog.reqs :
            catalog.reqs[i].route = "catalog_form" /\ catalog.reqs[i].pc = "received"}

\* what the browser may post: a received page filled in, the form without
\* the hidden field, the form with a token of its own making
CatalogPosts ==
  {Overlay(CatalogForm, [form_token |-> catalog.reqs[i].token]) : i \in Pages}
    \cup {CatalogForm, Overlay(CatalogForm, [form_token |-> <<"abc">>])}

Request(route, form) ==
  [route |-> route, cookie |-> catalog.jar, form |-> form, pc |-> "sent", at |-> 0,
   status |-> 0, text |-> <<>>, token |-> None, trace |-> <<>>,
   set_cookie |-> [sent |-> FALSE, value |-> EmptyDict]]

Send(req) ==
  /\ Len(catalog.reqs) < MaxRequests
  /\ catalog' = [catalog EXCEPT !.reqs = Append(@, req)]
  /\ UNCHANGED <<prog, user_estimate_sessions, sheet, out, accepted, runs, web_orders, http,
                 threads, quoted>>

GetCatalogForm == prog = "Bro" /\ Send(Request("catalog_form", EmptyDict))

PostSubmitForm == prog = "Bro" /\ \E form \in CatalogPosts : Send(Request("submit_form", form))

\* the requests handled so far
Handled == {i \in DOMAIN catalog.reqs : catalog.reqs[i].pc # "sent"}

\* datetime.now never runs backwards
CatalogClock ==
  (IF catalog.rows = <<>> THEN 1
   ELSE int(Tail(catalog.rows[Len(catalog.rows)][1]))) .. MaxTime

\* the server runs the handler of request i to its end
Handle(i, r) ==
  /\ catalog.reqs[i].pc = "sent"
  /\ catalog' = [catalog EXCEPT
       !.rows = r.R,
       !.uuids = IF catalog.reqs[i].route = "catalog_form" THEN @ + 1 ELSE @,
       !.reqs[i] = [@ EXCEPT !.pc = "handled", !.at = Cardinality(Handled) + 1,
                             !.status = r.status, !.text = r.text, !.token = r.token,
                             !.trace = r.trace,
                             !.set_cookie = [sent |-> r.modified, value |-> r.session]]]
  /\ UNCHANGED <<prog, user_estimate_sessions, sheet, out, accepted, runs, web_orders, http,
                 threads, quoted>>

ShowCatalogForm ==
  \E i \in DOMAIN catalog.reqs :
    /\ catalog.reqs[i].route = "catalog_form"
    /\ Handle(i, show_catalog_form(catalog.rows, catalog.reqs[i].cookie, catalog.uuids + 1))

SubmitCatalogForm ==
  \E i \in DOMAIN catalog.reqs :
    /\ catalog.reqs[i].route = "submit_form"
    /\ \E ext \in {"ok", "persist_fails"} :
         \E now \in (IF ext = "persist_fails" THEN {1} ELSE CatalogClock) :
           Handle(i, submit_catalog_form(catalog.rows, catalog.reqs[i].cookie,
                                         catalog.reqs[i].form, ext, now))

\* the response to request i reaches the browser
Respond ==
  \E i \in DOMAIN catalog.reqs :
    /\ catalog.reqs[i].pc = "handled"
    /\ catalog' = [catalog EXCEPT
         !.jar = IF catalog.reqs[i].set_cookie.sent THEN catalog.reqs[i].set_cookie.value
                 ELSE @,
         !.reqs[i] = [@ EXCEPT !.pc = "received"]]
    /\ UNCHANGED <<prog, user_estimate_sessions, sheet, out, accepted, runs, web_orders, http,
                   threads, quoted>>

CatalogNext ==
  GetCatalogForm \/ PostSubmitForm \/ ShowCatalogForm \/ SubmitCatalogForm \/ Respond

CatalogSpec == Init /\ [][CatalogNext]_vars

\* the handled submissions of the catalog form
Submissions == {i \in Handled : catalog.reqs[i].route = "submit_form"}

\* the handled submissions that appended a row
Appenders ==
  {i \in Submissions : \E n \in DOMAIN catalog.reqs[i].trace : catalog.reqs[i].trace[n] = "append"}

\* the token submission i carried, None when it carried none
FormToken(i) == get(catalog.reqs[i].form, "form_token", None)

\* token was in a page show_catalog_form rendered before request i was handled
IssuedBefore(token, i) ==
  \E k \in Handled :
    /\ catalog.reqs[k].route = "catalog_form"
    /\ catalog.reqs[k].token = token
    /\ catalog.reqs[k].at < catalog.reqs[i].at

\* ---------------------------------------------------------------------
\* C32.  Bro_shop_test: a token show_catalog_form issued leads to at most
\* one CatalogRequests row: of two submissions that carry the same issued
\* token, the one handled second is answered 400 and appends nothing,
\* however the browser interleaves its requests for the form and its
\* submissions.
\* (The token the check reads is the one in the request's cookie: two
\* submissions sent with the same cookie both pass.)
\* ---------------------------------------------------------------------
C32_TokenAppendsAtMostOnce ==
  /\ Len(catalog.rows) = Cardinality(Appenders)
  /\ \A i, j \in Submissions :
       (/\ FormToken(i) = FormToken(j)
        /\ IssuedBefore(FormToken(i), i)
        /\ catalog.reqs[i].at < catalog.reqs[j].at)
         => catalog.reqs[j].status = 400 /\ j \notin Appenders

\* ---------------------------------------------------------------------
\* C40.  Bro_shop_test: a submission appends a CatalogRequests row only if
\* it carries a token that show_catalog_form issued to this browser and
\* that no earlier submission consumed; a submission without form_token,
\* sent with a session that holds no token, is answered 400.
\* (`None != None` is false: that submission passes the check and appends.)
\* ---------------------------------------------------------------------
C40_AppendOnlyForIssuedUnconsumedToken ==
  \A i \in Submissions :
    /\ i \in Appenders
         => /\ "form_token" \in DOMAIN catalog.reqs[i].form
            /\ IssuedBefore(FormToken(i), i)
            /\ \A j \in Submissions :
                 (FormToken(j) = FormToken(i) /\ catalog.reqs[j].at < catalog.reqs[i].at)
                   => catalog.reqs[j].trace = <<>>
    /\ ("form_token" \notin DOMAIN catalog.reqs[i].form
          /\ "catalog_form_token" \notin DOMAIN catalog.reqs[i].cookie)
         => catalog.reqs[i].status = 400

\* the fields the answers of steps 1..n are recorded under
AnswerFields(n) == {Field(j) : j \in 1..n}

\* the fields the code writes along with the answers of steps 1..n: the
\* discount tier with the usage date, and in Bro_shop_test the fixed
\* print position, color count and back name with the quantity
DerivedFields(n) ==
  IF prog = "Bro"
  THEN (IF n >= 2 THEN {"discount_type"} ELSE {})
         \cup (IF n >= 5 THEN {"print_position", "color_count", "back_name"} ELSE {})
  ELSE (IF n >= 1 THEN {"discount_type"} ELSE {})

\* the usage date that gives the early tier
EarlyUsage == IF prog = "Bro" THEN <<"after_day14">> ELSE <<"14days_or_more">>

\* ---------------------------------------------------------------------
\* C33.  With one message handled at a time: between two handled messages
\* every session of the store is at a step k in 1..N+1 and its answers are
\* exactly the fields of steps 1..k-1, each holding a choice of its step,
\* together with the fields derived from them; no field of step k or of a
\* later step is present.
\* ---------------------------------------------------------------------
C33_SessionHoldsAnswersBelowStep ==
  \A u \in DOMAIN user_estimate_sessions :
    LET k == user_estimate_sessions[u].step
        answers == user_estimate_sessions[u].answers
    IN  /\ k \in 1..TerminalStep
        /\ DOMAIN answers = AnswerFields(k - 1) \cup DerivedFields(k - 1)
        /\ \A j \in 1..(k - 1) : answers[Field(j)] \in Choices(j)
        /\ \A j \in k..LastStep : Field(j) \notin DOMAIN answers \/ Field(j) \in DerivedFields(k - 1)
        /\ "discount_type" \in DOMAIN answers
             => answers["discount_type"]
                  = (IF answers["usage_date"] = EarlyUsage THEN <<"hayawari">> ELSE <<"tsujo">>)

\* an answer has just been recorded in a session that now waits at step 4
\* with the three answers before it, and another session is left at its
\* terminal step
C33_Witness ==
  /\ Did("answer") /\ Alive
  /\ user_estimate_sessions[out.user].step = 4
  /\ AnswerFields(3) \subseteq DOMAIN user_estimate_sessions[out.user].answers
  /\ Field(4) \notin DOMAIN user_estimate_sessions[out.user].answers
  /\ \E v \in DOMAIN user_estimate_sessions : user_estimate_sessions[v].step = TerminalStep

\* the rows of the quote sheet that carry user u
RowsOfUser(u) == {i \in DOMAIN sheet : sheet[i][3] = <<u>>}

\* ---------------------------------------------------------------------
\* C34.  With one message handled at a time: a started session leads to at
\* most one appended quote row.  Since a user's last accepted start phrase
\* at most one row has been appended for that user, whatever was sent
\* afterwards and whichever external call failed; and every step that
\* appends a row appends one row, for the user of the message, who had a
\* session at the last step before it.
\* ---------------------------------------------------------------------
C34_OneRowPerStartedSession ==
  /\ [](\A u \in DOMAIN quoted : quoted[u] <= 1 /\ quoted[u] <= Cardinality(RowsOfUser(u)))
  /\ [][sheet' # sheet
          => /\ Len(sheet') = Len(sheet) + 1
             /\ SubSeq(sheet', 1, Len(sheet)) = sheet
             /\ sheet'[Len(sheet')][3] = <<out'.user>>
             /\ out'.user \in DOMAIN user_estimate_sessions
             /\ user_estimate_sessions[out'.user].step = LastStep
             /\ quoted[out'.user] = 0 /\ quoted'[out'.user] = 1]_vars

\* a row was appended for a session whose result message failed, and the
\* message that followed removed the session without a second row
C34_Witness ==
  /\ out.user \in DOMAIN quoted /\ quoted[out.user] = 1
  /\ out.step = TerminalStep
  /\ Did("del") /\ ~Did("append") /\ ~Alive
  /\ Cardinality(RowsOfUser(out.user)) = 1

\* the reply of the final else of process_estimate_flow
\*   "input_error_start_over" = 入力内容に誤りがあります。もう一度「カンタン見積り」からやり直してください。
\*   "error_start_over" = エラーが発生しました。最初からやり直してください。
RestartReply ==
  TextSendMessage(IF prog = "Bro" THEN "input_error_start_over" ELSE "error_start_over")

\* the texts handle_message answers before it looks at the session
AnsweredFirst == IF prog = "Bro" THEN {<<"otoiawase">>, <<"#yujin_chat">>} ELSE {}

C36_InquiryLeavesSessionUntouched ==
  [][(/\ prog = "Bro"
      /\ out'.text \in {<<"otoiawase">>, <<"#yujin_chat">>}
      /\ out'.user \in DOMAIN user_estimate_sessions)
       => /\ user_estimate_sessions' = user_estimate_sessions
          /\ sheet' = sheet
          /\ out'.step = user_estimate_sessions[out'.user].step
          /\ ~Routed' /\ ~Did("del")'
          /\ out'.replies = <<IF out'.text = <<"otoiawase">> THEN Flex("flex_inquiry")
                              ELSE TextSendMessage("connect_to_staff_chat")>>
    ]_vars

\* an inquiry has been answered for a user whose session waits at step 5
\* with its four answers
C36_Witness ==
  /\ prog = "Bro"
  /\ out.text = <<"otoiawase">> /\ out.step = 5
  /\ out.replies = <<Flex("flex_inquiry")>>
  /\ Alive /\ user_estimate_sessions[out.user].step = 5
  /\ AnswerFields(4) \subseteq DOMAIN user_estimate_sessions[out.user].answers

\* ---------------------------------------------------------------------
\* Catalog_BOT's flow answered with every choice of every step
\* ---------------------------------------------------------------------
FlowInit == Init /\ prog = "Cat"

\* user U1 sends the start phrase, once
FlowStart ==
  /\ prog = "Cat"
  /\ out = NoOut
  /\ Deliver(Cat_handle_message(user_estimate_sessions, sheet, "U1", <<"omitsumori">>, "ok", 1),
             "U1", <<"omitsumori">>)

\* user U1 answers the step the session is at with one of its choices
FlowAnswer ==
  /\ prog = "Cat"
  /\ "U1" \in DOMAIN user_estimate_sessions
  /\ \E text \in CatChoices(user_estimate_sessions["U1"].step) :
       Deliver(Cat_handle_message(user_estimate_sessions, sheet, "U1", text, "ok", 1),
               "U1", text)

FlowNext == FlowStart \/ FlowAnswer

FlowSpec == FlowInit /\ [][FlowNext]_vars

\* the last run completed the flow: it priced the answers and appended the row
Completed == out.calc # <<>> /\ Did("append") /\ Did("del")

\* the tiers of the rate table
Tiers == {<<"hayawari">>, <<"tsujo">>}

\* ---------------------------------------------------------------------
\* C37.  Catalog_BOT: every answer set that completes the flow has a rate
\* row.  An item accepted at step 3 has rows in PRICE_TABLE for both
\* tiers, a quantity accepted at step 4 lies in a range of the item in
\* both tiers, and the price of a completed flow is never (0, 0): unit
\* and total are positive.
\* ---------------------------------------------------------------------
C37_CompletedFlowHasRateRow ==
  /\ (prog = "Cat" /\ Did("answer") /\ out.step = 3)
       => \A tier \in Tiers : RowsOf(out.text, tier) # <<>>
  /\ (prog = "Cat" /\ Did("answer") /\ out.step = 4)
       => \A tier \in Tiers :
            MatchingRows(user_estimate_sessions[out.user].answers["item"], tier, int(out.text))
              # <<>>
  /\ (prog = "Cat" /\ Completed)
       => LET a == out.calc[1].args
          IN  /\ find_price_row(a["item"], a["discount_type"], int(a["quantity"])) # <<>>
              /\ out.calc[1].result # <<0, 0>>
              /\ out.calc[1].result[1] > 0 /\ out.calc[1].result[2] > 0

\* a flow has been completed for the last item of the list, in the regular
\* tier, with the largest quantity
C37_Witness ==
  /\ prog = "Cat" /\ Completed
  /\ out.calc[1].args["item"] = <<"ZipUpLightParka">>
  /\ out.calc[1].args["discount_type"] = <<"tsujo">>
  /\ out.calc[1].args["quantity"] = <<"1", "0", "0">>
  /\ out.calc[1].result[1] > 0

\* the color choices for one printed side and for two
OneSideColors == {<<"single_1c">>, <<"single_2c">>, <<"single_full">>}

TwoSideColors ==
  {<<"both_1c_1c">>, <<"both_2c_1c">>, <<"both_1c_2c">>, <<"both_2c_2c">>, <<"both_full">>}

\* ---------------------------------------------------------------------
\* C38.  Catalog_BOT: in every completed flow the color choice fits the
\* print position: "front_only" and "back_only" go with a choice for one
\* side, "front_and_back" with a choice for two sides; so no quote has a
\* two-side color choice priced with the position fee 0.
\* (Step 6 accepts every key of COLOR_COST_MAP, whatever step 5 recorded.)
\* ---------------------------------------------------------------------
C38_ColorChoiceFitsPosition ==
  (prog = "Cat" /\ Completed)
    => LET a == out.calc[1].args
       IN  /\ a["print_position"] \in {<<"front_only">>, <<"back_only">>}
                => a["color_count"] \in OneSideColors
           /\ a["print_position"] = <<"front_and_back">>
                => a["color_count"] \in TwoSideColors
           /\ ~(/\ a["color_count"] \in TwoSideColors
                /\ PositionFee(a, find_price_row(a["item"], a["discount_type"],
                                                 int(a["quantity"]))[1]) = 0)

\* ---------------------------------------------------------------------
\* The flow with every call succeeding, and users who go on answering
\* ---------------------------------------------------------------------
\* a session may start while the sheet has room for the rows of the
\* sessions that are open
Room == Len(sheet) + Cardinality(DOMAIN user_estimate_sessions) < MaxRows

\* the texts of a user other than a valid answer to the step of the session
BroOtherTexts(S, u) ==
  IF u \in DOMAIN S THEN BroTexts(S, u) \ Typed(BroButton, S, u)
  ELSE IF Room THEN BroTexts(S, u) ELSE BroTexts(S, u) \ {<<"kantan_mitsumori">>}

CatOtherTexts(S, u) ==
  IF u \in DOMAIN S THEN CatTexts(S, u) \ Typed(CatButton, S, u)
  ELSE IF Room THEN CatTexts(S, u) ELSE CatTexts(S, u) \ {<<"omitsumori">>}

\* user u answers the step of its session with a button of the prompt
BroValidAnswer(u) ==
  /\ prog = "Bro"
  /\ u \in DOMAIN user_estimate_sessions
  /\ \E text \in Typed(BroButton, user_estimate_sessions, u) :
       \E now \in ClockReads(sheet) :
         \E r \in {Bro_handle_message(user_estimate_sessions, sheet, u, text, "ok", now)} :
           Deliver(r, u, text)

CatValidAnswer(u) ==
  /\ prog = "Cat"
  /\ u \in DOMAIN user_estimate_sessions
  /\ \E text \in Typed(CatButton, user_estimate_sessions, u) :
       \E now \in ClockReads(sheet) :
         \E r \in {Cat_handle_message(user_estimate_sessions, sheet, u, text, "ok", now)} :
           Deliver(r, u, text)

ValidAnswer(u) == BroValidAnswer(u) \/ CatValidAnswer(u)

\* user u sends anything else
BroOtherMessage(u) ==
  /\ prog = "Bro"
  /\ \E text \in BroOtherTexts(user_estimate_sessions, u) :
       \E r \in {Bro_handle_message(user_estimate_sessions, sheet, u, text, "ok", 1)} :
         Deliver(r, u, text)

CatOtherMessage(u) ==
  /\ prog = "Cat"
  /\ \E text \in CatOtherTexts(user_estimate_sessions, u) :
       \E r \in {Cat_handle_message(user_estimate_sessions, sheet, u, text, "ok", 1)} :
         Deliver(r, u, text)

LiveNext ==
  \E u \in Users :
    BroValidAnswer(u) \/ CatValidAnswer(u) \/ BroOtherMessage(u) \/ CatOtherMessage(u)

\* a user who has a session does not stop short of answering its step:
\* weak fairness of ValidAnswer(u), WF_vars(ValidAnswer(u)), written out
\* with the value of ENABLED <<ValidAnswer(u)>>_vars, which is "u has a
\* session" (the prompt of every step 1..N has a button, and the answer
\* it gives moves the session on)
Answering(u) ==
  \/ []<>(u \notin DOMAIN user_estimate_sessions)
  \/ []<><<ValidAnswer(u)>>_vars

LiveSpec == Init /\ [][LiveNext]_vars /\ \A u \in Users : Answering(u)

\* ---------------------------------------------------------------------
\* C39.  With one message handled at a time and every external call
\* succeeding, and users who in the end answer the step they are at:
\* every session is removed in the end; a session is always at a step
\* 1..N, where a valid answer is accepted; and a flow is completed by the
\* N-th valid answer since its start (N = 5 in Bro_shop_test, 7 in
\* Catalog_BOT), each the answer of its step.
\* ---------------------------------------------------------------------
C39_EverySessionEnds ==
  /\ \A u \in Users :
       (u \in DOMAIN user_estimate_sessions) ~> (u \notin DOMAIN user_estimate_sessions)
  /\ [](\A u \in DOMAIN user_estimate_sessions :
          /\ user_estimate_sessions[u].step \in 1..LastStep
          /\ Len(accepted[u]) = user_estimate_sessions[u].step - 1)
  /\ [](\A r \in runs :
          /\ Len(r.inputs) = LastStep
          /\ \A j \in 1..LastStep : r.inputs[j] \in Choices(j))
  /\ [](Completed => /\ ~Alive /\ out.step = LastStep
                     /\ \E r \in runs : r.answers = out.calc[1].args)

\* the answer to the last step has completed a flow and removed the
\* session, and the sheet is full
C39_Witness ==
  /\ Completed /\ ~Alive /\ out.step = LastStep
  /\ Len(sheet) = MaxRows

====
